---- MODULE Spec2Model ----
(***************************************************************************)
(* A model of the job-screening pipeline (kap007/job-screening-system):    *)
(* the RabbitMQ client (message_bus/rabbitmq_client.py), the four stage    *)
(* handlers (agents/*.py), the persistence operations they use             *)
(* (database/db_manager.py), the scoring function                          *)
(* (models/embedding_manager.py), the orchestrator                         *)
(* (agents/orchestrator.py) and the threads main.py starts.                *)
(*                                                                         *)
(* The specifications of the module:                                       *)
(*   SpecBus     one RabbitMQClient, one owning stage and an arbitrary     *)
(*               callback: connection loss, reconnect, publish, consume.   *)
(*   SpecBusLive SpecBus with weak fairness on the steps of the threads.   *)
(*   Spec        the orchestrator and the four stage handlers over the     *)
(*               queues and the database, on a connection that stays open. *)
(*   SpecMatch   one resume followed through parser, matcher and notifier  *)
(*               against a job table of up to MaxJobs rows, with one       *)
(*               redelivery of the profile message.                        *)
(*   SpecIngest  the orchestrator over its two watched roots: start-up     *)
(*               scan, observers, created-events, restarts.                *)
(*   SpecShared  the threads of several stages and of the orchestrator on  *)
(*               the one client and channel main() builds, and the end of  *)
(*               the connection under them.                                *)
(*   SpecMain    main(): the mode, the agents it starts on the shared      *)
(*               client, the interrupt and the cleanup.                    *)
(*   SpecScore   calculate_match_score as a function of its inputs.        *)
(* Floats are modelled as exact rationals [n, d] (d > 0); IEEE rounding of *)
(* the products and the sum is not modelled.                               *)
(***************************************************************************)
EXTENDS Integers, Sequences, FiniteSets, TLC

(* ------------------------------- bounds -------------------------------- *)
\* messages a run of SpecBus may put on the queue
MaxBusMsgs == 2
\* deliveries of one message SpecBus follows
MaxDeliveries == 2

\* longest skills list SpecScore draws for a job or a resume
MaxSkillList == 2
\* SpecScore draws the similarity from the grid k / SimGrid
SimGrid == 10

\* messages that enter the pipeline in a run of Spec: job rows and resume
\* files the orchestrator processes, payloads other clients publish
MaxEntries == 2
\* rows of the job table SpecMatch starts from
MaxJobs == 3

(* -------------------------- program constants -------------------------- *)
\* rabbitmq_client.py:64  while retry_count < 5
MaxRetries == 5
\* rabbitmq_client.py:71  wait_time = 2 ** retry_count
BackoffBase == 2

VARIABLES
    \* --- the pipeline: broker queues, database, stage handlers (Spec) ---
    queues,           \* queue name -> the payloads the broker holds, oldest first
    jobs,             \* table job_descriptions, in primary-key order
    candidates,       \* table candidates
    matches,          \* table matches
    match_threshold,  \* config.MATCH_THRESHOLD as MatcherAgent.__init__ read it
    lastHandled,      \* the last delivery to a stage: message, outcome, publishes
    rowsIn,           \* job rows the orchestrator has processed
    resumesIn,        \* resume files the orchestrator has processed
    injected,         \* messages other clients have put on the queues
    \* --- calculate_match_score and its inputs (SpecScore) ---
    sc_jd_skills,     \* jd_data["skills"]
    sc_resume_skills, \* resume_data["skills"]
    sc_similarity,    \* what cosine_similarity returned
    sc_result,        \* <<>> or <<[score, matching_details]>>: the returned tuple
    \* --- RabbitMQClient and its owning stage (SpecBus) ---
    connection,       \* "open" | "closed": self.connection (None or is_closed = "closed")
    busOp,            \* "idle" | "publish" | "consume": the operation inside reconnect()
    retry_count,      \* reconnect's local retry_count
    attempts,         \* connect() calls made by the current / last reconnect()
    waits,            \* the time.sleep() arguments of the current / last reconnect()
    reconnectResult,  \* "none" | "running" | "true" | "false"
    closedAtCall,     \* the condition of reconnect()'s if (line 61) at its last call
    brokerQueue,      \* the messages the broker holds on the consumed queue
    nextId,           \* bodies handed to the broker so far (identifies a message)
    pending,          \* the publish_message call waiting in reconnect(), or NoCall
    lastPublish,      \* the last finished publish_message call
    consumer,         \* "none" | "starting" | "registered" | "raised" | "stopped"
    stagePc,          \* the owning stage's start(): "init" | "running" | "stopped"
    stageSawError,    \* start()'s except branch (matcher.py:133-134) ran
    lastDelivery,     \* the last callback_wrapper run
    deliveries,       \* id -> times the broker delivered the message
    \* --- OrchestratorAgent and the two watched roots (SpecIngest) ---
    jdRoot,           \* the files in JD_INPUT_DIR: file name -> rows
    processedDir,     \* the files in JD_INPUT_DIR/processed
    resumeRoot,       \* the file names in RESUME_INPUT_DIR
    orchPc,           \* start(): "down" | "scanned" | "watching"
    events,           \* created-events the observers have not delivered yet
    clock,            \* int(time.time())
    starts,           \* start() calls so far
    drops,            \* files put into the roots so far
    handled,          \* file name -> the starts in which it was processed, in order
    lastIngest,       \* the last process_jd_file / process_resume_file call
    \* ---- several threads on one RabbitMQClient (main.py:42-80) ----
    sh_pc,            \* thread -> the call it is in
    sh_stage,         \* thread -> the stage whose handler it runs, or "none"
    sh_ready,         \* queue -> messages the broker holds ready
    sh_unacked,       \* stage -> deliveries to its consumer not yet acknowledged
    sh_events,        \* stage -> deliveries received and not yet dispatched
    sh_registered,    \* stage -> its consumer is registered on the channel
    sh_published,     \* publish_message calls of the orchestrator so far
    \* ---- the process main() runs (main.py:35-99) ----
    mn_mode,          \* args.mode, "none" before parse_args
    mn_pc,            \* where the main thread is
    mn_agents,        \* agent -> its thread's state and the objects it was given
    mn_started,       \* the agents whose thread main() has started, in order
    mn_consumers,     \* the basic_consume registrations on the channel, in order
    mn_observers,     \* running watchdog observers
    mn_joins          \* thread.join(timeout=1.0) calls of the finally branch so far

busVars == <<connection, busOp, retry_count, attempts, waits, reconnectResult,
             closedAtCall, brokerQueue, nextId, pending, lastPublish, consumer, stagePc,
             stageSawError, lastDelivery, deliveries>>

scoreVars == <<sc_jd_skills, sc_resume_skills, sc_similarity, sc_result>>

pipeVars == <<queues, jobs, candidates, matches, match_threshold, lastHandled,
              rowsIn, resumesIn, injected>>

ingestVars == <<jdRoot, processedDir, resumeRoot, orchPc, events, clock, starts,
                drops, handled, lastIngest>>

shareVars == <<sh_pc, sh_stage, sh_ready, sh_unacked, sh_events, sh_registered,
               sh_published>>

mainVars == <<mn_mode, mn_pc, mn_agents, mn_started, mn_consumers, mn_observers,
              mn_joins>>

vars == <<busVars, scoreVars, pipeVars, ingestVars, shareVars, mainVars>>

(* ============================== rationals ============================== *)
\* a Python float is modelled as the exact rational n / d in lowest terms
RECURSIVE GCD(_, _)
GCD(a, b) == IF b = 0 THEN a ELSE GCD(b, a % b)

Abs(x) == IF x < 0 THEN -x ELSE x

Rat(n, d) == LET g == GCD(Abs(n), d) IN [n |-> n \div g, d |-> d \div g]

RatAdd(x, y) == Rat(x.n * y.d + y.n * x.d, x.d * y.d)
RatMul(x, y) == Rat(x.n * y.n, x.d * y.d)
RatGE(x, y) == x.n * y.d >= y.n * x.d

(* ======================== EmbeddingManager (scoring) =================== *)
SkillTokens == {"Python", "python", "SQL", "java"}

\* str.lower() on the skill tokens
lower_identity(s) == s

lower(s) == CASE s = "Python" -> "python"
              [] s = "SQL" -> "sql"
              [] OTHER -> s

Range(seq) == {seq[i] : i \in DOMAIN seq}

\* dict.get(key, default)
Get(m, k, default) == IF k \in DOMAIN m THEN m[k] ELSE default

\* embedding_manager.py:79-97: the skill overlap and the weighted score;
\* similarity is the value cosine_similarity returned (line 79)
calculate_match_score_clamped(jd_data, resume_data, similarity) ==
    LET jd_skills == {lower(x) : x \in Range(Get(jd_data, "skills", <<>>))}
        resume_skills_set == {lower(x) : x \in Range(Get(resume_data, "skills", <<>>))}
        matching_skills == jd_skills \cap resume_skills_set
        pct == IF jd_skills # {}
               THEN Rat(Cardinality(matching_skills), Cardinality(jd_skills))
               ELSE Rat(0, 1)
        raw == RatAdd(RatMul(Rat(7, 10), similarity), RatMul(Rat(3, 10), pct))
        final_score == IF raw.n < 0 THEN Rat(0, 1)
                       ELSE IF RatGE(raw, Rat(1, 1)) THEN Rat(1, 1) ELSE raw
    IN  [score |-> final_score,
         matching_details |-> [matching_skills |-> matching_skills,
                               skill_match_percentage |-> pct,
                               overall_similarity |-> similarity]]

calculate_match_score(jd_data, resume_data, similarity) ==
    LET jd_skills == {lower(x) : x \in Range(Get(jd_data, "skills", <<>>))}
        resume_skills_set == {lower(x) : x \in Range(Get(resume_data, "skills", <<>>))}
        matching_skills == jd_skills \cap resume_skills_set
        pct == IF jd_skills # {}
               THEN Rat(Cardinality(matching_skills), Cardinality(jd_skills))
               ELSE Rat(0, 1)
        final_score == RatAdd(RatMul(Rat(7, 10), similarity), RatMul(Rat(3, 10), pct))
    IN  [score |-> final_score,
         matching_details |-> [matching_skills |-> matching_skills,
                               skill_match_percentage |-> pct,
                               overall_similarity |-> similarity]]

(* ============================ DatabaseManager ========================== *)
\* a nullable column: Null, or Some(value)
Null == <<>>
Some(x) == <<x>>

\* the empty dict
EmptyDict == <<>>

\* d[k] = v on a dict
Put(m, k, v) == [x \in DOMAIN m \cup {k} |-> IF x = k THEN v ELSE m[x]]

\* Python truthiness of a string ("" stands for None as well)
Truthy(v) == v # ""

\* db_manager.py:186  shortlisted=score >= 0.8
ShortlistThreshold == Rat(8, 10)

\* db_manager.py:114-125 (the new row gets the next primary key)
save_job_description(js, job_id, job_title, raw_text) ==
    Append(js, [id |-> Len(js) + 1, job_id |-> job_id, job_title |-> job_title,
                raw_text |-> raw_text, summary |-> Null, skills |-> Null,
                responsibilities |-> Null, qualifications |-> Null])

\* db_manager.py:127-139
update_job_summary_retitle(js, job_id, summary, skills, responsibilities, qualifications) ==
    [i \in DOMAIN js |->
        IF js[i].job_id = job_id
        THEN [js[i] EXCEPT !.summary = Some(summary), !.skills = Some(skills),
                           !.responsibilities = Some(responsibilities),
                           !.qualifications = Some(qualifications),
                           !.job_title = summary]
        ELSE js[i]]

update_job_summary(js, job_id, summary, skills, responsibilities, qualifications) ==
    [i \in DOMAIN js |->
        IF js[i].job_id = job_id /\ \A k \in 1..(i - 1) : js[k].job_id # job_id
        THEN [js[i] EXCEPT !.summary = Some(summary), !.skills = Some(skills),
                           !.responsibilities = Some(responsibilities),
                           !.qualifications = Some(qualifications)]
        ELSE js[i]]

\* db_manager.py:30-42  JobDescription.to_dict
to_dict(jd) ==
    [id |-> jd.id, job_id |-> jd.job_id, job_title |-> jd.job_title,
     raw_text |-> jd.raw_text, summary |-> jd.summary,
     skills |-> IF jd.skills = Null THEN <<>> ELSE jd.skills[1],
     responsibilities |-> IF jd.responsibilities = Null THEN <<>>
                          ELSE jd.responsibilities[1],
     qualifications |-> IF jd.qualifications = Null THEN <<>> ELSE jd.qualifications[1]]

\* db_manager.py:141-145: Null for None, else Some(dict)
get_job_description(js, job_id) ==
    LET hits == {i \in DOMAIN js : js[i].job_id = job_id}
    IN  IF hits = {} THEN Null
        ELSE Some(to_dict(js[CHOOSE i \in hits : \A k \in hits : i <= k]))

\* db_manager.py:148-160
save_candidate_lost(cs, name, email, phone, resume_path) == cs

save_candidate(cs, name, email, phone, resume_path) ==
    Append(cs, [id |-> Len(cs) + 1, name |-> name, email |-> email, phone |-> phone,
                resume_path |-> resume_path, parsed_resume |-> Null])

\* db_manager.py:162-170
update_candidate_resume_noop(cs, candidate_id, parsed_resume) == cs

update_candidate_resume(cs, candidate_id, parsed_resume) ==
    [i \in DOMAIN cs |->
        IF cs[i].id = candidate_id
        THEN [cs[i] EXCEPT !.parsed_resume = Some(parsed_resume)]
        ELSE cs[i]]

\* db_manager.py:179-191
save_match_unscored(ms, job_id, candidate_id, score) ==
    Append(ms, [id |-> Len(ms) + 1, job_id |-> job_id, candidate_id |-> candidate_id,
                score |-> Rat(0, 1), shortlisted |-> FALSE,
                email_sent |-> FALSE, email_sent_at |-> Null])

save_match_dedup(ms, job_id, candidate_id, score) ==
    IF \E i \in DOMAIN ms : ms[i].job_id = job_id /\ ms[i].candidate_id = candidate_id
    THEN [i \in DOMAIN ms |->
            IF ms[i].job_id = job_id /\ ms[i].candidate_id = candidate_id
            THEN [ms[i] EXCEPT !.score = score] ELSE ms[i]]
    ELSE Append(ms, [id |-> Len(ms) + 1, job_id |-> job_id, candidate_id |-> candidate_id,
                     score |-> score, shortlisted |-> FALSE,
                     email_sent |-> FALSE, email_sent_at |-> Null])

save_match(ms, job_id, candidate_id, score) ==
    Append(ms, [id |-> Len(ms) + 1, job_id |-> job_id, candidate_id |-> candidate_id,
                score |-> score, shortlisted |-> RatGE(score, ShortlistThreshold),
                email_sent |-> FALSE, email_sent_at |-> Null])

\* db_manager.py:193-202
update_match_email_sent_flag_only(ms, match_id) ==
    [i \in DOMAIN ms |->
        IF ms[i].id = match_id THEN [ms[i] EXCEPT !.email_sent = TRUE] ELSE ms[i]]

update_match_email_sent(ms, match_id) ==
    [i \in DOMAIN ms |->
        IF ms[i].id = match_id
        THEN [ms[i] EXCEPT !.email_sent = TRUE, !.email_sent_at = Some("utcnow")]
        ELSE ms[i]]

(* ============================ RabbitMQClient =========================== *)

RECURSIVE Pow(_, _)
Pow(b, n) == IF n = 0 THEN 1 ELSE b * Pow(b, n - 1)

\* rabbitmq_client.py:71
wait_time_linear(rc) == BackoffBase * rc

wait_time(rc) == Pow(BackoffBase, rc)

NoCall == [id |-> 0, serializable |-> TRUE]
NoPublish == [id |-> 0, reconnected |-> TRUE, result |-> "none"]
NoDelivery == [id |-> 0, decoded |-> FALSE, called |-> FALSE, raised |-> FALSE,
               verdict |-> "none"]

BusIds == 1..MaxBusMsgs

\* rabbitmq_client.py:116-124: json.loads, then the callback, then basic_ack;
\* any exception of the three leads to basic_nack(requeue=True).
callback_wrapper_always_ack(body_json, callback_raises) ==
    [decoded |-> body_json,
     called  |-> body_json,
     raised  |-> body_json /\ callback_raises,
     verdict |-> "ack"]

callback_wrapper(body_json, callback_raises) ==
    [decoded |-> body_json,
     called  |-> body_json,
     raised  |-> body_json /\ callback_raises,
     verdict |-> IF body_json /\ ~callback_raises THEN "ack" ELSE "nack"]

\* rabbitmq_client.py:88-108: the value publish_message gives its caller.
\* reconnected: reconnect() returned True; serializable: json.dumps succeeds;
\* handoff: basic_publish does not raise.  Every failure raises inside the try
\* and is turned into False by the except branch.
publish_result_optimistic(reconnected, serializable, handoff) ==
    IF serializable THEN "true" ELSE "false"

publish_result(reconnected, serializable, handoff) ==
    IF reconnected /\ serializable /\ handoff THEN "true" ELSE "false"

\* the broker's side of basic_publish: the body is on the queue
Enqueue(q, body) == Append(q, body)

\* publish_message from the point where reconnect() has returned
FinishPublish(call, reconnected, handoff) ==
    LET res == publish_result(reconnected, call.serializable, handoff)
        handed == reconnected /\ call.serializable /\ handoff
    IN  /\ lastPublish' = [id |-> call.id, reconnected |-> reconnected, result |-> res]
        /\ brokerQueue' = IF handed
                          THEN Enqueue(brokerQueue, [id |-> call.id, json |-> TRUE])
                          ELSE brokerQueue
        /\ deliveries' = deliveries
        /\ pending' = NoCall

\* consume_messages from the point where reconnect() has returned
\* (rabbitmq_client.py:112-131); the raise ends the consumer thread
\* (start_consumer_thread, 142-150), not the stage's start().
FinishConsume(reconnected) ==
    /\ consumer' = IF reconnected THEN "registered" ELSE "raised"
    /\ UNCHANGED <<stagePc, stageSawError>>

\* the network or the broker drops the connection; a registered consumer's
\* start_consuming() raises, is caught at 138-140 and the thread ends
ConnectionLost ==
    /\ stagePc # "stopped"
    /\ busOp = "idle"
    /\ connection = "open"
    /\ connection' = "closed"
    /\ consumer' = IF consumer = "registered" THEN "stopped" ELSE consumer
    /\ UNCHANGED <<busOp, retry_count, attempts, waits, reconnectResult, closedAtCall,
                   brokerQueue, nextId, pending, lastPublish, stagePc, stageSawError,
                   lastDelivery, deliveries>>
    /\ UNCHANGED <<scoreVars, pipeVars, ingestVars, shareVars, mainVars>>

\* publish_message (88-108) called while no other bus operation runs.
\* With the connection open reconnect() returns True at once (61, 76).
publish_message(serializable, handoff) ==
    /\ stagePc # "stopped"
    /\ busOp = "idle"
    /\ nextId < MaxBusMsgs
    /\ nextId' = nextId + 1
    /\ closedAtCall' = (connection = "closed")
    /\ LET call == [id |-> nextId + 1, serializable |-> serializable]
       IN  IF connection = "open"
           THEN /\ FinishPublish(call, TRUE, handoff)
                /\ attempts' = 0
                /\ waits' = <<>>
                /\ reconnectResult' = "true"
                /\ UNCHANGED <<busOp, retry_count>>
                \* a failed hand-off is a broken channel
                /\ connection' = IF serializable /\ ~handoff THEN "closed" ELSE connection
                /\ consumer' = IF serializable /\ ~handoff /\ consumer = "registered"
                               THEN "stopped" ELSE consumer
           ELSE /\ busOp' = "publish"
                /\ pending' = call
                /\ retry_count' = 0
                /\ attempts' = 0
                /\ waits' = <<>>
                /\ reconnectResult' = "running"
                /\ UNCHANGED <<connection, brokerQueue, lastPublish, consumer, deliveries>>
    /\ UNCHANGED <<stagePc, stageSawError, lastDelivery>>
    /\ UNCHANGED <<scoreVars, pipeVars, ingestVars, shareVars, mainVars>>

\* one pass of reconnect()'s loop (64-73): connect() and declare_queues()
\* succeed (ok) or raise; after the 5th failure the loop ends and reconnect
\* returns False (74-75).  The operation that called reconnect then finishes.
reconnect(ok, handoff) ==
    /\ busOp \in {"publish", "consume"}
    /\ retry_count < MaxRetries
    /\ attempts' = attempts + 1
    /\ IF ok
       THEN /\ connection' = "open"
            /\ reconnectResult' = "true"
            /\ UNCHANGED <<retry_count, waits>>
       ELSE /\ connection' = "closed"
            /\ retry_count' = retry_count + 1
            /\ waits' = Append(waits, wait_time(retry_count + 1))
            /\ reconnectResult' = IF retry_count + 1 < MaxRetries THEN "running" ELSE "false"
    /\ IF ok \/ retry_count + 1 >= MaxRetries
       THEN /\ busOp' = "idle"
            /\ IF busOp = "publish"
               THEN /\ FinishPublish(pending, ok, handoff)
                    /\ UNCHANGED <<consumer, stagePc, stageSawError>>
               ELSE /\ FinishConsume(ok)
                    /\ UNCHANGED <<brokerQueue, lastPublish, pending, deliveries>>
       ELSE UNCHANGED <<busOp, brokerQueue, lastPublish, pending, consumer, stagePc,
                        stageSawError, deliveries>>
    /\ UNCHANGED <<nextId, lastDelivery, closedAtCall>>
    /\ UNCHANGED <<scoreVars, pipeVars, ingestVars, shareVars, mainVars>>

\* the stage's start() (matcher.py:120-129): start_consumer_thread returns at
\* once and start() enters its sleep loop
start ==
    /\ stagePc = "init"
    /\ stagePc' = "running"
    /\ consumer' = "starting"
    /\ UNCHANGED <<connection, busOp, retry_count, attempts, waits, reconnectResult,
                   closedAtCall, brokerQueue, nextId, pending, lastPublish, stageSawError,
                   lastDelivery, deliveries>>
    /\ UNCHANGED <<scoreVars, pipeVars, ingestVars, shareVars, mainVars>>

\* the consumer thread enters consume_messages (110-131)
consume_messages ==
    /\ stagePc = "running"
    /\ consumer = "starting"
    /\ busOp = "idle"
    /\ closedAtCall' = (connection = "closed")
    /\ IF connection = "open"
       THEN /\ FinishConsume(TRUE)
            /\ attempts' = 0
            /\ waits' = <<>>
            /\ reconnectResult' = "true"
            /\ UNCHANGED <<busOp, retry_count>>
       ELSE /\ busOp' = "consume"
            /\ retry_count' = 0
            /\ attempts' = 0
            /\ waits' = <<>>
            /\ reconnectResult' = "running"
            /\ UNCHANGED <<consumer, stagePc, stageSawError>>
    /\ UNCHANGED <<connection, brokerQueue, nextId, pending, lastPublish,
                   lastDelivery, deliveries>>
    /\ UNCHANGED <<scoreVars, pipeVars, ingestVars, shareVars, mainVars>>

\* another client of the broker puts a body on the queue that is not JSON
ForeignPublish ==
    /\ stagePc # "stopped"
    /\ nextId < MaxBusMsgs
    /\ nextId' = nextId + 1
    /\ brokerQueue' = Enqueue(brokerQueue, [id |-> nextId + 1, json |-> FALSE])
    /\ UNCHANGED <<connection, busOp, retry_count, attempts, waits, reconnectResult,
                   closedAtCall, pending, lastPublish, consumer, stagePc, stageSawError,
                   lastDelivery, deliveries>>
    /\ UNCHANGED <<scoreVars, pipeVars, ingestVars, shareVars, mainVars>>

\* the broker delivers the head of the queue to the registered consumer and
\* callback_wrapper (116-124) runs the callback, which returns or raises
Deliver(callback_raises) ==
    /\ consumer = "registered"
    /\ connection = "open"
    /\ busOp = "idle"
    /\ brokerQueue # <<>>
    /\ LET m == Head(brokerQueue)
           r == callback_wrapper(m.json, callback_raises)
       IN  /\ deliveries[m.id] < MaxDeliveries
           /\ deliveries' = [deliveries EXCEPT ![m.id] = @ + 1]
           /\ lastDelivery' = [id |-> m.id, decoded |-> r.decoded, called |-> r.called,
                               raised |-> r.raised, verdict |-> r.verdict]
           \* basic_ack removes the message; basic_nack(requeue=True) puts it
           \* back where it was
           /\ brokerQueue' = IF r.verdict = "ack" THEN Tail(brokerQueue) ELSE brokerQueue
    /\ UNCHANGED <<connection, busOp, retry_count, attempts, waits, reconnectResult,
                   closedAtCall, nextId, pending, lastPublish, consumer, stagePc, stageSawError>>
    /\ UNCHANGED <<scoreVars, pipeVars, ingestVars, shareVars, mainVars>>

\* KeyboardInterrupt in start() (matcher.py:131-137): the finally branch
\* closes the connection (rabbitmq_client.py:152-156)
Interrupt ==
    /\ stagePc = "running"
    /\ busOp = "idle"
    /\ stagePc' = "stopped"
    /\ connection' = "closed"
    /\ consumer' = IF consumer \in {"registered", "starting"} THEN "stopped" ELSE consumer
    /\ UNCHANGED <<busOp, retry_count, attempts, waits, reconnectResult, closedAtCall,
                   brokerQueue, nextId, pending, lastPublish, stageSawError, lastDelivery, deliveries>>
    /\ UNCHANGED <<scoreVars, pipeVars, ingestVars, shareVars, mainVars>>

NextBus ==
    \/ ConnectionLost
    \/ \E s \in BOOLEAN, h \in BOOLEAN : publish_message(s, h)
    \/ \E ok \in BOOLEAN, h \in BOOLEAN : reconnect(ok, h)
    \/ start
    \/ consume_messages
    \/ ForeignPublish
    \/ \E r \in BOOLEAN : Deliver(r)
    \/ Interrupt

(* ================================ stages =============================== *)
\* config.py:15-20
JD_QUEUE == "job_desc_queue"
JD_SUMMARY_QUEUE == "jd_summary_queue"
RESUME_QUEUE == "resume_queue"
RESUME_PROFILE_QUEUE == "resume_profile_queue"
MATCH_QUEUE == "match_queue"
EMAIL_QUEUE == "email_queue"

\* rabbitmq_client.py:31-38
Queues == {JD_QUEUE, JD_SUMMARY_QUEUE, RESUME_QUEUE, RESUME_PROFILE_QUEUE,
           MATCH_QUEUE, EMAIL_QUEUE}

Stages == {"summarizer", "resume_parser", "matcher", "notifier"}

\* the queue each stage's start() consumes
InputQueue(stage) ==
    CASE stage = "summarizer" -> JD_QUEUE
      [] stage = "resume_parser" -> RESUME_QUEUE
      [] stage = "matcher" -> RESUME_PROFILE_QUEUE
      [] stage = "notifier" -> EMAIL_QUEUE

Pub(q, payload) == [queue |-> q, payload |-> payload]

\* what a handler leaves behind: the tables, the publish_message calls it made
\* (in order) and whether its try block ended in the except branch
Outcome(js, cs, ms, pubs, error) ==
    [jobs |-> js, candidates |-> cs, matches |-> ms, pubs |-> pubs, error |-> error]

\* the except branch of a handler whose try block failed before any write
\* or publish (jd_summarizer.py:77-80, resume_parser.py:99-102,
\* matcher.py:110-113, email_agent.py:93-96): it logs and returns a dict
ErrorOutcome_published(js, cs, ms) ==
    Outcome(js, cs, ms, <<Pub(MATCH_QUEUE, [error |-> "error"])>>, TRUE)

ErrorOutcome(js, cs, ms) == Outcome(js, cs, ms, <<>>, TRUE)

\* jd_summarizer.py:31-80; llm_ok: summarize_job_description of the LLM
\* returned summary_data (llm_manager.py:32-84 always sets its five keys)
summarize_job_description(js, cs, ms, jd_data, llm_ok, summary_data) ==
    IF "job_id" \notin DOMAIN jd_data \/ "raw_text" \notin DOMAIN jd_data \/ ~llm_ok
    THEN ErrorOutcome(js, cs, ms)
    ELSE LET jd2 == IF Truthy(summary_data.job_title)
                       /\ ~Truthy(Get(jd_data, "job_title", ""))
                    THEN Put(jd_data, "job_title", summary_data.job_title)
                    ELSE jd_data
             js2 == update_job_summary(js, jd_data.job_id, summary_data.summary,
                                       summary_data.skills,
                                       summary_data.responsibilities,
                                       summary_data.qualifications)
             result == [job_id |-> jd_data.job_id,
                        job_title |-> Get(jd2, "job_title", summary_data.job_title),
                        summary |-> summary_data.summary,
                        skills |-> summary_data.skills,
                        responsibilities |-> summary_data.responsibilities,
                        qualifications |-> summary_data.qualifications]
         IN  Outcome(js2, cs, ms, <<Pub(JD_SUMMARY_QUEUE, result)>>, FALSE)

\* resume_parser.py:57, 60, 65: `if not <the LLM's value> and <the regex
\* value>`, the test that lets the regex value fill a field
use_fallback_always(llm_value, regex_value) == Truthy(regex_value)

use_fallback(llm_value, regex_value) == ~Truthy(llm_value) /\ Truthy(regex_value)

\* resume_parser.py:33-102; text_ok: extract_text_from_pdf returned;
\* basic_info: extract_basic_info's result ("" for None); llm_ok and
\* parsed: LLMManager.parse_resume returned the dict parsed
parse_resume(js, cs, ms, resume_data, text_ok, basic_info, llm_ok, parsed) ==
    IF "resume_path" \notin DOMAIN resume_data \/ ~text_ok \/ ~llm_ok
    THEN ErrorOutcome(js, cs, ms)
    ELSE LET contact(p) == Get(p, "contact", EmptyDict)
             p1 == IF use_fallback(Get(parsed, "name", ""), basic_info.name)
                   THEN Put(parsed, "name", basic_info.name) ELSE parsed
             p2 == IF use_fallback(Get(contact(p1), "email", ""), basic_info.email)
                   THEN Put(p1, "contact", Put(contact(p1), "email", basic_info.email))
                   ELSE p1
             p3 == IF use_fallback(Get(contact(p2), "phone", ""), basic_info.phone)
                   THEN Put(p2, "contact", Put(contact(p2), "phone", basic_info.phone))
                   ELSE p2
             given == Get(resume_data, "candidate_id", 0)
             cs2 == IF given # 0 THEN cs
                    ELSE save_candidate(cs, Get(p3, "name", "Unknown"),
                                        Get(contact(p3), "email", ""),
                                        Get(contact(p3), "phone", ""),
                                        resume_data.resume_path)
             candidate_id == IF given # 0 THEN given ELSE Len(cs2)
             cs3 == update_candidate_resume(cs2, candidate_id, p3)
             result == [candidate_id |-> candidate_id,
                        resume_path |-> resume_data.resume_path,
                        parsed_resume |-> p3]
         IN  Put(Outcome(js, cs3, ms, <<Pub(RESUME_PROFILE_QUEUE, result)>>, FALSE),
                 "oracle", [parsed |-> parsed, basic_info |-> basic_info])

\* matcher.py:75 and 97  score >= self.match_threshold
qualifies_strict(score, threshold) == RatGE(score, threshold) /\ score # threshold

qualifies_always(score, threshold) == TRUE

qualifies(score, threshold) == RatGE(score, threshold)

\* matcher.py:100-104: the aggregate result
aggregate_qualified_only(candidate_id, match_results) ==
    [candidate_id |-> candidate_id,
     matches |-> SelectSeq(match_results, LAMBDA e : e.qualified)]

aggregate(candidate_id, match_results) ==
    [candidate_id |-> candidate_id, matches |-> match_results]

\* matcher.py:62-98: the loop body for job_ids[i], then the rest of the loop.
\* ctx.sims[i] is the similarity the embedding model gives for job i;
\* ctx.failAt = i: calculate_match_score raises for job i (0: for none)
RECURSIVE match_loop(_, _, _, _, _, _)
match_loop(js, ms, pubs, match_results, i, ctx) ==
    IF i > Len(ctx.job_ids)
    THEN [matches |-> ms, pubs |-> pubs, match_results |-> match_results,
          error |-> FALSE]
    ELSE LET job_id == ctx.job_ids[i]
             found == get_job_description(js, job_id)
         IN  IF found = Null
             THEN match_loop(js, ms, pubs, match_results, i + 1, ctx)
             ELSE IF ctx.failAt = i
             THEN [matches |-> ms, pubs |-> pubs, match_results |-> match_results,
                   error |-> TRUE]
             ELSE LET job_data == found[1]
                      r == calculate_match_score(job_data, ctx.parsed_resume, ctx.sims[i])
                      ms2 == save_match(ms, job_data.id, ctx.candidate_id, r.score)
                      match == ms2[Len(ms2)]
                      email_data ==
                          [match_id |-> match.id,
                           job_id |-> job_data.id,
                           job_title |-> job_data.job_title,
                           candidate_id |-> ctx.candidate_id,
                           candidate_name |-> Get(ctx.parsed_resume, "name", "Candidate"),
                           candidate_email |->
                               Get(Get(ctx.parsed_resume, "contact", EmptyDict), "email", ""),
                           score |-> r.score,
                           matching_details |-> r.matching_details]
                      pubs2 == IF qualifies(r.score, ctx.threshold)
                               THEN Append(pubs, Pub(EMAIL_QUEUE, email_data))
                               ELSE pubs
                      results2 == Append(match_results,
                                         [job_id |-> job_id, score |-> r.score,
                                          matching_details |-> r.matching_details,
                                          qualified |-> qualifies(r.score, ctx.threshold)])
                  IN  match_loop(js, ms2, pubs2, results2, i + 1, ctx)

\* matcher.py:32-113
match_candidate_to_jobs(js, cs, ms, resume_data, sims, failAt, threshold) ==
    IF "candidate_id" \notin DOMAIN resume_data \/ "parsed_resume" \notin DOMAIN resume_data
    THEN ErrorOutcome(js, cs, ms)
    ELSE LET ctx == [job_ids |-> [i \in DOMAIN js |-> js[i].job_id],
                     candidate_id |-> resume_data.candidate_id,
                     parsed_resume |-> resume_data.parsed_resume,
                     sims |-> sims, failAt |-> failAt, threshold |-> threshold]
             r == match_loop(js, ms, <<>>, <<>>, 1, ctx)
         IN  IF r.error
             THEN Outcome(js, cs, r.matches, r.pubs, TRUE)
             ELSE Outcome(js, cs, r.matches,
                          Append(r.pubs, Pub(MATCH_QUEUE,
                                             aggregate(ctx.candidate_id, r.match_results))),
                          FALSE)

\* email_agent.py:76-80  if sent: update_match_email_sent(match_id)
mark_email_sent_always(ms, match_id, sent) == update_match_email_sent(ms, match_id)

mark_email_sent(ms, match_id, sent) ==
    IF sent THEN update_match_email_sent(ms, match_id) ELSE ms

\* email_agent.py:35-96; llm_ok: generate_email returned; sent: what
\* send_interview_invitation returned (email_utils.py:33-67 never raises).
\* The outcome of a run that reached the send carries what it returned
send_interview_email(js, cs, ms, email_data, llm_ok, sent) ==
    IF \/ \E k \in {"match_id", "candidate_name", "candidate_email", "job_title",
                    "matching_details"} : k \notin DOMAIN email_data
       \/ ~llm_ok
    THEN ErrorOutcome(js, cs, ms)
    ELSE LET ms2 == mark_email_sent(ms, email_data.match_id, sent)
         IN  Put(Outcome(js, cs, ms2, <<>>,
                         "candidate_id" \notin DOMAIN email_data
                         \/ "job_id" \notin DOMAIN email_data),
                 "sent", sent)

\* the except branch that ends every handler's try block (jd_summarizer.py:
\* 77-80, resume_parser.py:99-102, matcher.py:110-113, email_agent.py:93-96)
\* returns a dict: handle_message never raises to callback_wrapper
handler_raises_reraise(error) == error

handler_raises(error) == FALSE

\* the keys each handler reads by subscript from its payload
\* (jd_summarizer.py:43-46, resume_parser.py:44, matcher.py:44-45,
\* email_agent.py:52-64 and 85-86): a payload without one ends in KeyError
RequiredFields(stage) ==
    CASE stage = "summarizer" -> {"job_id", "raw_text"}
      [] stage = "resume_parser" -> {"resume_path"}
      [] stage = "matcher" -> {"candidate_id", "parsed_resume"}
      [] stage = "notifier" -> {"match_id", "candidate_name", "candidate_email",
                                "job_title", "matching_details", "candidate_id",
                                "job_id"}

(* ================= threads on the shared client (data) ================= *)
\* stages started in one process
MaxSharedStages == 2
\* publish_message calls of the orchestrator in a run of SpecShared
MaxSharedMsgs == 2

\* main.py:50-68: the order in which main() starts the stage agents
StageOrder == <<"summarizer", "resume_parser", "matcher", "notifier">>

SharedStages == {StageOrder[i] : i \in 1..MaxSharedStages}

\* main.py:27-33 and rabbitmq_client.py:142-150: one consumer thread per
\* stage, and the orchestrator's thread, all holding the one RabbitMQClient
Threads == SharedStages \cup {"orchestrator"}

(* ============================ main() (data) ============================ *)
\* main.py:50-80: the agents in the order main() starts them
AgentOrder == <<"summarizer", "resume_parser", "matcher", "notifier", "orchestrator">>

(* ======================= the watched roots (data) ====================== *)
\* the names of the files dropped into the roots, by the order of the drop
CsvNames == <<"a.csv", "b.csv", "c.csv", "d.csv">>
PdfNames == <<"p1.pdf", "p2.pdf", "p3.pdf", "p4.pdf">>
TxtNames == <<"n1.txt", "n2.txt", "n3.txt", "n4.txt">>

FileNames == Range(CsvNames) \cup Range(PdfNames) \cup Range(TxtNames)

\* orchestrator.py:31, 42, 132, 139  str.endswith
endswith(name, ext) ==
    CASE ext = ".csv" -> name \in Range(CsvNames)
      [] ext = ".pdf" -> name \in Range(PdfNames)
      [] OTHER -> FALSE

\* orchestrator.py:75  f"job_{int(time.time())}"
TimeJobIds == <<"job_1", "job_2", "job_3", "job_4", "job_5", "job_6">>
TimeJobId(t) == TimeJobIds[t]

\* the job files dropped: csv.DictReader rows; a file whose header has no
\* job_id column gives rows without that key
JobFiles ==
    {<<[job_id |-> "J1", job_title |-> "Engineer", job_description |-> "text"],
       [job_id |-> "J2", job_title |-> "Analyst", job_description |-> ""],
       [job_id |-> "J3", job_title |-> "", job_description |-> "text"]>>,
     <<[job_id |-> "J4", job_title |-> "Engineer", job_description |-> "text"],
       [job_id |-> "J4", job_title |-> "Engineer", job_description |-> "text"]>>,
     <<[job_title |-> "Engineer", job_description |-> "text"],
       [job_title |-> "Analyst", job_description |-> "text"]>>}

NoneHandled == [n \in FileNames |-> <<>>]

NoIngest == [kind |-> "none", name |-> "", rows |-> <<>>, jobsBefore |-> 0,
             calls |-> <<>>, raisedAt |-> 0, archived |-> FALSE, up |-> TRUE]

(* ============================ the pipeline ============================= *)
\* config.py:39  MATCH_THRESHOLD = float(os.getenv("MATCH_THRESHOLD", "0.8"))
DefaultThreshold == Rat(8, 10)

\* the values the environment may configure
Thresholds == {DefaultThreshold, Rat(65, 100)}

\* the job ids and resume paths of the files dropped in the watched roots
JobIdNames == <<"J1", "J2", "J3", "J4", "J5">>
ResumePaths == <<"r1.pdf", "r2.pdf", "r3.pdf">>

\* what the oracles may answer
SummaryChoices ==
    {[summary |-> "summary", job_title |-> t, skills |-> sk,
      responsibilities |-> <<>>, qualifications |-> <<>>] :
        t \in {"", "Developer"}, sk \in {<<>>, <<"Python", "SQL">>}}

ParsedChoices ==
    {[name |-> "Ann", contact |-> [email |-> "ann@llm", phone |-> "1"],
      skills |-> <<"python", "java">>],
     [name |-> "Ann", contact |-> [email |-> "", phone |-> "1"],
      skills |-> <<"python", "java">>],
     [name |-> "", contact |-> [email |-> ""], skills |-> <<"python", "SQL">>],
     [raw_text |-> "raw", error |-> "Failed to parse as JSON"]}

BasicChoices ==
    {[name |-> "Bea", email |-> "bea@regex", phone |-> "555"],
     [name |-> "", email |-> "", phone |-> ""]}

SimChoices == {Rat(5, 10), Rat(9, 10)}

NoHandled == [stage |-> "none", msg |-> EmptyDict, error |-> FALSE, verdict |-> "none",
              pubs |-> <<>>, matchesBefore |-> 0, jobsSeen |-> 0, sent |-> FALSE,
              oracle |-> EmptyDict]

RECURSIVE PublishAll(_, _)
\* the broker after the publish_message calls pubs, on an open connection
PublishAll(qs, pubs) ==
    IF pubs = <<>> THEN qs
    ELSE PublishAll([qs EXCEPT ![Head(pubs).queue] = Enqueue(@, Head(pubs).payload)],
                    Tail(pubs))

\* orchestrator.py:72-94: one row of a job file with a description; the row's
\* job_id is not in the table yet
process_jd_row(job_title) ==
    /\ rowsIn + resumesIn + injected < MaxEntries
    /\ rowsIn' = rowsIn + 1
    /\ LET job_id == JobIdNames[Len(jobs) + 1]
           jd_message == [job_id |-> job_id, job_title |-> job_title, raw_text |-> "text"]
       IN  /\ jobs' = save_job_description(jobs, job_id, job_title, "text")
           /\ queues' = PublishAll(queues, <<Pub(JD_QUEUE, jd_message)>>)
    /\ UNCHANGED <<candidates, matches, match_threshold, lastHandled, resumesIn, injected>>
    /\ UNCHANGED <<busVars, scoreVars, ingestVars, shareVars, mainVars>>

\* orchestrator.py:107-126
process_resume_file ==
    /\ rowsIn + resumesIn + injected < MaxEntries
    /\ resumesIn' = resumesIn + 1
    /\ queues' = PublishAll(queues, <<Pub(RESUME_QUEUE,
                                          [resume_path |-> ResumePaths[resumesIn + 1]])>>)
    /\ UNCHANGED <<jobs, candidates, matches, match_threshold, lastHandled, rowsIn, injected>>
    /\ UNCHANGED <<busVars, scoreVars, ingestVars, shareVars, mainVars>>

\* a payload with every field of its queue's schema
Template(q) ==
    CASE q = JD_QUEUE ->
           [job_id |-> "J1", job_title |-> "Engineer", raw_text |-> "text"]
      [] q = RESUME_QUEUE ->
           [resume_path |-> "r1.pdf", candidate_id |-> 1]
      [] q = RESUME_PROFILE_QUEUE ->
           [candidate_id |-> 1, resume_path |-> "r1.pdf",
            parsed_resume |-> [name |-> "Ann", contact |-> [email |-> "ann@llm", phone |-> "1"],
                               skills |-> <<"python", "SQL">>]]
      [] q = EMAIL_QUEUE ->
           [match_id |-> 1, job_id |-> 1, job_title |-> "Engineer", candidate_id |-> 1,
            candidate_name |-> "Ann", candidate_email |-> "ann@llm",
            score |-> Rat(93, 100),
            matching_details |-> [matching_skills |-> {"python", "sql"},
                                  skill_match_percentage |-> Rat(1, 1),
                                  overall_similarity |-> Rat(9, 10)]]

Drop(m, f) == [k \in DOMAIN m \ {f} |-> m[k]]

\* another client of the broker publishes a payload that lacks one field
Inject(q, f) ==
    /\ rowsIn + resumesIn + injected < MaxEntries
    /\ injected' = injected + 1
    /\ queues' = [queues EXCEPT ![q] = Enqueue(@, Drop(Template(q), f))]
    /\ UNCHANGED <<jobs, candidates, matches, match_threshold, lastHandled, rowsIn, resumesIn>>
    /\ UNCHANGED <<busVars, scoreVars, ingestVars, shareVars, mainVars>>

\* another client asks for a stored resume to be parsed again: a resume
\* message with the optional candidate_id (resume_parser.py:36-41)
InjectReparse ==
    /\ rowsIn + resumesIn + injected < MaxEntries
    /\ injected' = injected + 1
    /\ queues' = [queues EXCEPT ![RESUME_QUEUE] = Enqueue(@, Template(RESUME_QUEUE))]
    /\ UNCHANGED <<jobs, candidates, matches, match_threshold, lastHandled, rowsIn, resumesIn>>
    /\ UNCHANGED <<busVars, scoreVars, ingestVars, shareVars, mainVars>>

\* callback_wrapper (rabbitmq_client.py:116-124) around a stage's
\* handle_message: the handler's effects, then basic_ack or basic_nack
Handle(stage, r) ==
    LET q == InputQueue(stage)
        msg == Head(queues[q])
        w == callback_wrapper(TRUE, handler_raises(r.error))
        acked == [queues EXCEPT ![q] = IF w.verdict = "ack" THEN Tail(@) ELSE @]
    IN  /\ jobs' = r.jobs
        /\ candidates' = r.candidates
        /\ matches' = r.matches
        /\ queues' = PublishAll(acked, r.pubs)
        /\ lastHandled' = [stage |-> stage, msg |-> msg, error |-> r.error,
                           verdict |-> w.verdict, pubs |-> r.pubs,
                           matchesBefore |-> Len(matches), jobsSeen |-> Len(jobs),
                           sent |-> Get(r, "sent", FALSE),
                           \* what the oracles answered in a resume parser run
                           oracle |-> Get(r, "oracle", EmptyDict)]
        /\ UNCHANGED <<match_threshold, rowsIn, resumesIn, injected>>
        /\ UNCHANGED <<busVars, scoreVars, ingestVars, shareVars, mainVars>>

\* jd_summarizer.py:82-85  handle_message
Summarizer ==
    /\ queues[JD_QUEUE] # <<>>
    /\ \E llm_ok \in BOOLEAN, sd \in SummaryChoices :
          Handle("summarizer",
                 summarize_job_description(jobs, candidates, matches,
                                           Head(queues[JD_QUEUE]), llm_ok, sd))

\* resume_parser.py:104-107  handle_message
ResumeParser ==
    /\ queues[RESUME_QUEUE] # <<>>
    /\ \E text_ok \in BOOLEAN, llm_ok \in BOOLEAN, b \in BasicChoices, p \in ParsedChoices :
          Handle("resume_parser",
                 parse_resume(jobs, candidates, matches, Head(queues[RESUME_QUEUE]),
                              text_ok, b, llm_ok, p))

\* matcher.py:115-118  handle_message
Matcher ==
    /\ queues[RESUME_PROFILE_QUEUE] # <<>>
    /\ \E sims \in [DOMAIN jobs -> SimChoices], failAt \in 0..Len(jobs) :
          Handle("matcher",
                 match_candidate_to_jobs(jobs, candidates, matches,
                                         Head(queues[RESUME_PROFILE_QUEUE]),
                                         sims, failAt, match_threshold))

\* email_agent.py:98-101  handle_message
Notifier ==
    /\ queues[EMAIL_QUEUE] # <<>>
    /\ \E llm_ok \in BOOLEAN, sent \in BOOLEAN :
          Handle("notifier",
                 send_interview_email(jobs, candidates, matches,
                                      Head(queues[EMAIL_QUEUE]), llm_ok, sent))

Next ==
    \/ \E t \in {"Engineer"} : process_jd_row(t)
    \/ process_resume_file
    \/ \E q \in {JD_QUEUE, RESUME_QUEUE, RESUME_PROFILE_QUEUE, EMAIL_QUEUE} :
          \E f \in DOMAIN Template(q) : Inject(q, f)
    \/ InjectReparse
    \/ Summarizer
    \/ ResumeParser
    \/ Matcher
    \/ Notifier

\* the state after main() has built the shared client and database and the
\* agents (main.py:35-70): open connection, empty queues and tables
Init ==
    \* RabbitMQClient.__init__ (rabbitmq_client.py:24-39) has connected
    /\ connection = "open"
    /\ busOp = "idle"
    /\ retry_count = 0
    /\ attempts = 0
    /\ waits = <<>>
    /\ reconnectResult = "none"
    /\ closedAtCall = FALSE
    /\ brokerQueue = <<>>
    /\ nextId = 0
    /\ pending = NoCall
    /\ lastPublish = NoPublish
    /\ consumer = "none"
    /\ stagePc = "init"
    /\ stageSawError = FALSE
    /\ lastDelivery = NoDelivery
    /\ deliveries = [i \in BusIds |-> 0]
    \* calculate_match_score has not been called
    /\ sc_jd_skills = <<>>
    /\ sc_resume_skills = <<>>
    /\ sc_similarity = Rat(0, 1)
    /\ sc_result = <<>>
    \* MatcherAgent.__init__ (matcher.py:29) reads the configured threshold
    /\ queues = [q \in Queues |-> <<>>]
    /\ jobs = <<>>
    /\ candidates = <<>>
    /\ matches = <<>>
    /\ match_threshold \in Thresholds
    /\ lastHandled = NoHandled
    /\ rowsIn = 0
    /\ resumesIn = 0
    /\ injected = 0
    \* the orchestrator is not running and the roots are empty
    /\ jdRoot = <<>>
    /\ processedDir = <<>>
    /\ resumeRoot = {}
    /\ orchPc = "down"
    /\ events = {}
    /\ clock = 1
    /\ starts = 0
    /\ drops = 0
    /\ handled = NoneHandled
    /\ lastIngest = NoIngest
    \* no thread has been started on the client
    /\ sh_pc = [t \in Threads |-> "init"]
    /\ sh_stage = [t \in Threads |-> "none"]
    /\ sh_ready = [q \in Queues |-> 0]
    /\ sh_unacked = [st \in SharedStages |-> 0]
    /\ sh_events = [st \in SharedStages |-> 0]
    /\ sh_registered = [st \in SharedStages |-> FALSE]
    /\ sh_published = 0
    \* main() has not parsed its arguments
    /\ mn_mode = "none"
    /\ mn_pc = "parse_args"
    /\ mn_agents = [a \in Range(AgentOrder) |-> [state |-> "absent", bus |-> 0, db |-> 0]]
    /\ mn_started = <<>>
    /\ mn_consumers = <<>>
    /\ mn_observers = 0
    /\ mn_joins = 0

Spec == Init
        /\ [][Next]_vars

(* ------------------------------ SpecMatch ------------------------------ *)
\* the job table after n rows were ingested and the rows in S summarized
RECURSIVE JobTable(_, _)
JobTable(n, S) ==
    IF n = 0 THEN <<>>
    ELSE LET saved == save_job_description(JobTable(n - 1, S), JobIdNames[n],
                                           "Engineer", "text")
         IN  IF n \in S
             THEN update_job_summary(saved, JobIdNames[n], "summary",
                                     <<"Python", "SQL">>, <<>>, <<>>)
             ELSE saved

\* one resume file has been processed (orchestrator.py:107-126) and the
\* job table holds up to MaxJobs rows, summarized or not
InitMatch ==
    \* RabbitMQClient.__init__ (rabbitmq_client.py:24-39) has connected
    /\ connection = "open"
    /\ busOp = "idle"
    /\ retry_count = 0
    /\ attempts = 0
    /\ waits = <<>>
    /\ reconnectResult = "none"
    /\ closedAtCall = FALSE
    /\ brokerQueue = <<>>
    /\ nextId = 0
    /\ pending = NoCall
    /\ lastPublish = NoPublish
    /\ consumer = "none"
    /\ stagePc = "init"
    /\ stageSawError = FALSE
    /\ lastDelivery = NoDelivery
    /\ deliveries = [i \in BusIds |-> 0]
    \* calculate_match_score has not been called
    /\ sc_jd_skills = <<>>
    /\ sc_resume_skills = <<>>
    /\ sc_similarity = Rat(0, 1)
    /\ sc_result = <<>>
    /\ queues = PublishAll([q \in Queues |-> <<>>],
                           <<Pub(RESUME_QUEUE, [resume_path |-> ResumePaths[1]])>>)
    /\ \E n \in 0..MaxJobs : \E S \in SUBSET (1..n) : jobs = JobTable(n, S)
    /\ candidates = <<>>
    /\ matches = <<>>
    /\ match_threshold \in Thresholds
    /\ lastHandled = NoHandled
    /\ rowsIn = 0
    /\ resumesIn = 1
    /\ injected = 0
    \* the orchestrator is not running and the roots are empty
    /\ jdRoot = <<>>
    /\ processedDir = <<>>
    /\ resumeRoot = {}
    /\ orchPc = "down"
    /\ events = {}
    /\ clock = 1
    /\ starts = 0
    /\ drops = 0
    /\ handled = NoneHandled
    /\ lastIngest = NoIngest
    \* no thread has been started on the client
    /\ sh_pc = [t \in Threads |-> "init"]
    /\ sh_stage = [t \in Threads |-> "none"]
    /\ sh_ready = [q \in Queues |-> 0]
    /\ sh_unacked = [st \in SharedStages |-> 0]
    /\ sh_events = [st \in SharedStages |-> 0]
    /\ sh_registered = [st \in SharedStages |-> FALSE]
    /\ sh_published = 0
    \* main() has not parsed its arguments
    /\ mn_mode = "none"
    /\ mn_pc = "parse_args"
    /\ mn_agents = [a \in Range(AgentOrder) |-> [state |-> "absent", bus |-> 0, db |-> 0]]
    /\ mn_started = <<>>
    /\ mn_consumers = <<>>
    /\ mn_observers = 0
    /\ mn_joins = 0

\* the broker delivers the profile message a second time: the matcher's
\* run was complete, but the connection was lost before the basic_ack of
\* rabbitmq_client.py:120 reached the broker, which then requeues the message
Redeliver ==
    /\ lastHandled.stage = "matcher"
    /\ ~lastHandled.error
    \* explored once, and while no email is waiting for the notifier
    /\ queues[EMAIL_QUEUE] = <<>>
    /\ injected = 0
    /\ injected' = 1
    /\ queues' = [queues EXCEPT ![RESUME_PROFILE_QUEUE] = Enqueue(@, lastHandled.msg)]
    /\ UNCHANGED <<jobs, candidates, matches, match_threshold, lastHandled, rowsIn, resumesIn>>
    /\ UNCHANGED <<busVars, scoreVars, ingestVars, shareVars, mainVars>>

NextMatch ==
    \/ ResumeParser
    \/ Matcher
    \/ Notifier
    \/ Redeliver

SpecMatch == InitMatch
             /\ [][NextMatch]_vars

\* rabbitmq_client.py:24-39: the constructor connects and declares the queues;
\* nothing has been published or consumed
InitBus ==
    /\ connection = "open"
    /\ busOp = "idle"
    /\ retry_count = 0
    /\ attempts = 0
    /\ waits = <<>>
    /\ reconnectResult = "none"
    /\ closedAtCall = FALSE
    /\ brokerQueue = <<>>
    /\ nextId = 0
    /\ pending = NoCall
    /\ lastPublish = NoPublish
    /\ consumer = "none"
    /\ stagePc = "init"
    /\ stageSawError = FALSE
    /\ lastDelivery = NoDelivery
    /\ deliveries = [i \in BusIds |-> 0]
    \* calculate_match_score has not been called
    /\ sc_jd_skills = <<>>
    /\ sc_resume_skills = <<>>
    /\ sc_similarity = Rat(0, 1)
    /\ sc_result = <<>>
    \* empty tables and queues (db_manager.py:103-107)
    /\ queues = [q \in Queues |-> <<>>]
    /\ jobs = <<>>
    /\ candidates = <<>>
    /\ matches = <<>>
    /\ match_threshold = DefaultThreshold
    /\ lastHandled = NoHandled
    /\ rowsIn = 0
    /\ resumesIn = 0
    /\ injected = 0
    \* the orchestrator is not running and the roots are empty
    /\ jdRoot = <<>>
    /\ processedDir = <<>>
    /\ resumeRoot = {}
    /\ orchPc = "down"
    /\ events = {}
    /\ clock = 1
    /\ starts = 0
    /\ drops = 0
    /\ handled = NoneHandled
    /\ lastIngest = NoIngest
    \* no thread has been started on the client
    /\ sh_pc = [t \in Threads |-> "init"]
    /\ sh_stage = [t \in Threads |-> "none"]
    /\ sh_ready = [q \in Queues |-> 0]
    /\ sh_unacked = [st \in SharedStages |-> 0]
    /\ sh_events = [st \in SharedStages |-> 0]
    /\ sh_registered = [st \in SharedStages |-> FALSE]
    /\ sh_published = 0
    \* main() has not parsed its arguments
    /\ mn_mode = "none"
    /\ mn_pc = "parse_args"
    /\ mn_agents = [a \in Range(AgentOrder) |-> [state |-> "absent", bus |-> 0, db |-> 0]]
    /\ mn_started = <<>>
    /\ mn_consumers = <<>>
    /\ mn_observers = 0
    /\ mn_joins = 0

SpecBus == InitBus
           /\ [][NextBus]_vars

\* SpecBus with the scheduling the code has: a thread that can take its next
\* step takes it (the consumer thread enters consume_messages, reconnect's
\* loop goes on after its sleep, the broker delivers to a registered
\* consumer and the callback returns).  Publishing, connection loss and the
\* interrupt are the environment's and have no fairness
SpecBusLive == InitBus
               /\ [][NextBus]_vars
               /\ WF_vars(start)
               /\ WF_vars(consume_messages)
               /\ WF_vars(\E ok \in BOOLEAN, h \in BOOLEAN : reconnect(ok, h))
               /\ WF_vars(\E r \in BOOLEAN : Deliver(r))

(* ========================== OrchestratorAgent ========================== *)
\* seconds the clock may reach
MaxClock == 2
\* files put into the two roots in a run of SpecIngest
MaxDrops == 2
\* start() calls (process starts) in a run of SpecIngest
MaxStarts == 2

\* db_manager.py:21  job_id = Column(String(50), unique=True): the commit of
\* save_job_description raises IntegrityError for a job_id already stored
job_id_taken(js, job_id) == \E k \in DOMAIN js : js[k].job_id = job_id

\* orchestrator.py:79  if not job_description: continue
row_skipped_never(job_description) == FALSE

row_skipped(job_description) == ~Truthy(job_description)

\* orchestrator.py:72-94: the rows from row i on.  ctx.clock is
\* int(time.time()) at the first row, ctx.tickAt the row at which the second
\* changes (0: it does not change while the file is processed)
RECURSIVE process_jd_rows(_, _, _, _, _)
process_jd_rows(js, calls, rows, i, ctx) ==
    IF i > Len(rows)
    THEN [jobs |-> js, calls |-> calls, raisedAt |-> 0]
    ELSE LET row == rows[i]
             now == IF ctx.tickAt # 0 /\ i >= ctx.tickAt THEN ctx.clock + 1 ELSE ctx.clock
             job_id == Get(row, "job_id", TimeJobId(now))
             job_title == Get(row, "job_title", "")
             job_description == Get(row, "job_description", "")
             jd_message == [job_id |-> job_id, job_title |-> job_title,
                            raw_text |-> job_description]
         IN  IF row_skipped(job_description)
             THEN process_jd_rows(js, calls, rows, i + 1, ctx)
             ELSE IF job_id_taken(js, job_id)
             THEN [jobs |-> js, calls |-> calls, raisedAt |-> i]
             ELSE process_jd_rows(save_job_description(js, job_id, job_title,
                                                       job_description),
                                  Append(calls, Pub(JD_QUEUE, jd_message)),
                                  rows, i + 1, ctx)

\* orchestrator.py:96-101: os.rename(file_path, processed/<basename>)
rename_to_processed_copy(root, processed, name) ==
    [root |-> root, processed |-> Put(processed, name, root[name])]

rename_to_processed(root, processed, name) ==
    [root |-> Drop(root, name), processed |-> Put(processed, name, root[name])]

\* orchestrator.py:67-104: the rename is inside the try block, after the
\* loop over the rows: an exception at a row goes to the except branch
\* (103-104), which logs it, and the rename is not reached
reaches_rename_always(raisedAt) == TRUE

reaches_rename(raisedAt) == raisedAt = 0

\* what the orchestrator's operations read and write: the tables, the broker
\* queues, the job root and its processed/ directory, the clock
World(js, qs, root, processed, h, last, now, run) ==
    [jobs |-> js, queues |-> qs, jdRoot |-> root, processedDir |-> processed,
     handled |-> h, lastIngest |-> last, clock |-> now, run |-> run]

\* orchestrator.py:65-105 on the file name of the job root; up: the broker
\* is reachable, so that publish_message hands the message over (it returns
\* False otherwise, which process_jd_file does not look at)
process_jd_file(w, name, tick, up) ==
    LET rows == w.jdRoot[name]
        tickAt == IF tick /\ w.clock < MaxClock /\ Len(rows) >= 2 THEN 2 ELSE 0
        r == process_jd_rows(w.jobs, <<>>, rows, 1, [tickAt |-> tickAt, clock |-> w.clock])
        moved == IF reaches_rename(r.raisedAt)
                 THEN rename_to_processed(w.jdRoot, w.processedDir, name)
                 ELSE [root |-> w.jdRoot, processed |-> w.processedDir]
    IN  World(r.jobs,
              IF up THEN PublishAll(w.queues, r.calls) ELSE w.queues,
              moved.root, moved.processed,
              [w.handled EXCEPT ![name] = Append(@, w.run)],
              [kind |-> "jd", name |-> name, rows |-> rows, jobsBefore |-> Len(w.jobs),
               calls |-> r.calls, raisedAt |-> r.raisedAt,
               archived |-> reaches_rename(r.raisedAt), up |-> up],
              IF tickAt # 0 THEN w.clock + 1 ELSE w.clock,
              w.run)

\* orchestrator.py:113-116: the publish_message calls of process_resume_file
resume_calls_twice(file_path) ==
    <<Pub(RESUME_QUEUE, [resume_path |-> file_path]),
      Pub(RESUME_QUEUE, [resume_path |-> file_path])>>

resume_calls(file_path) == <<Pub(RESUME_QUEUE, [resume_path |-> file_path])>>

\* orchestrator.py:107-126 on a file of the resume root
process_resume_path(w, name, up) ==
    World(w.jobs,
          IF up THEN PublishAll(w.queues, resume_calls(name)) ELSE w.queues,
          w.jdRoot, w.processedDir,
          [w.handled EXCEPT ![name] = Append(@, w.run)],
          [kind |-> "resume", name |-> name, rows |-> <<>>, jobsBefore |-> Len(w.jobs),
           calls |-> resume_calls(name), raisedAt |-> 0, archived |-> FALSE, up |-> up],
          w.clock, w.run)

\* orchestrator.py:131-132 and 138-139: the names os.listdir gives that end
\* with the extension
existing_files_none(names, ext) == {}

existing_files(names, ext) == {n \in names : endswith(n, ext)}

\* the orders in which os.listdir may give the names
Orders(S) == {f \in [1..Cardinality(S) -> S] : \A x \in S : \E i \in DOMAIN f : f[i] = x}

RECURSIVE scan_jd(_, _, _, _)
\* orchestrator.py:131-135
scan_jd(w, order, tick, up) ==
    IF order = <<>> THEN w
    ELSE scan_jd(process_jd_file(w, Head(order), tick, up), Tail(order), tick, up)

RECURSIVE scan_resumes(_, _, _)
\* orchestrator.py:138-142
scan_resumes(w, order, up) ==
    IF order = <<>> THEN w
    ELSE scan_resumes(process_resume_path(w, Head(order), up), Tail(order), up)

\* the state the orchestrator's operations start from
Here == World(jobs, queues, jdRoot, processedDir, handled, lastIngest, clock, starts)

\* the state they leave
Becomes(w) ==
    /\ jobs' = w.jobs
    /\ queues' = w.queues
    /\ jdRoot' = w.jdRoot
    /\ processedDir' = w.processedDir
    /\ handled' = w.handled
    /\ lastIngest' = w.lastIngest
    /\ clock' = w.clock

\* somebody puts a job file into JD_INPUT_DIR; a running observer queues a
\* created-event for it
DropJobFile(rows) ==
    /\ drops < MaxDrops
    /\ drops' = drops + 1
    /\ LET name == CsvNames[drops + 1]
       IN  /\ jdRoot' = Put(jdRoot, name, rows)
           /\ events' = IF orchPc = "watching"
                        THEN events \cup {[root |-> "jd", name |-> name]} ELSE events
    /\ UNCHANGED <<processedDir, resumeRoot, orchPc, clock, starts, handled, lastIngest>>
    /\ UNCHANGED <<busVars, scoreVars, pipeVars, shareVars, mainVars>>

\* somebody puts a resume into RESUME_INPUT_DIR
DropResumeFile ==
    /\ drops < MaxDrops
    /\ drops' = drops + 1
    /\ LET name == PdfNames[drops + 1]
       IN  /\ resumeRoot' = resumeRoot \cup {name}
           /\ events' = IF orchPc = "watching"
                        THEN events \cup {[root |-> "resume", name |-> name]} ELSE events
    /\ UNCHANGED <<jdRoot, processedDir, orchPc, clock, starts, handled, lastIngest>>
    /\ UNCHANGED <<busVars, scoreVars, pipeVars, shareVars, mainVars>>

\* somebody puts a file of another kind into the resume root
DropOtherFile ==
    /\ drops < MaxDrops
    /\ drops' = drops + 1
    /\ LET name == TxtNames[drops + 1]
       IN  /\ resumeRoot' = resumeRoot \cup {name}
           /\ events' = IF orchPc = "watching"
                        THEN events \cup {[root |-> "resume", name |-> name]} ELSE events
    /\ UNCHANGED <<jdRoot, processedDir, orchPc, clock, starts, handled, lastIngest>>
    /\ UNCHANGED <<busVars, scoreVars, pipeVars, shareVars, mainVars>>

\* orchestrator.py:160-165: start() runs process_existing_files (128-142),
\* the job root first, then the resume root.  up: the broker is reachable
\* while it runs
orch_start ==
    /\ orchPc = "down"
    /\ starts < MaxStarts
    /\ starts' = starts + 1
    /\ orchPc' = "scanned"
    /\ \E jdOrder \in Orders(existing_files(DOMAIN jdRoot, ".csv")),
          pdfOrder \in Orders(existing_files(resumeRoot, ".pdf")),
          tick \in BOOLEAN, up \in BOOLEAN :
          Becomes(scan_resumes(scan_jd([Here EXCEPT !.run = starts + 1],
                                       jdOrder, tick, up), pdfOrder, up))
    /\ UNCHANGED <<resumeRoot, events, drops, match_threshold, candidates, matches,
                   lastHandled, rowsIn, resumesIn, injected>>
    /\ UNCHANGED <<busVars, scoreVars, shareVars, mainVars>>

\* orchestrator.py:144-158 and 168: the two observers start
start_file_watchers ==
    /\ orchPc = "scanned"
    /\ orchPc' = "watching"
    /\ UNCHANGED <<jdRoot, processedDir, resumeRoot, events, clock, starts, drops,
                   handled, lastIngest>>
    /\ UNCHANGED <<busVars, scoreVars, pipeVars, shareVars, mainVars>>

\* orchestrator.py:30-33 and 41-44: an observer delivers a created-event
on_created(e) ==
    /\ orchPc = "watching"
    /\ e \in events
    /\ events' = events \ {e}
    /\ IF e.root = "jd" /\ endswith(e.name, ".csv")
       THEN \E tick \in BOOLEAN, up \in BOOLEAN :
               Becomes(process_jd_file(Here, e.name, tick, up))
       ELSE IF e.root = "resume" /\ endswith(e.name, ".pdf")
       THEN \E up \in BOOLEAN : Becomes(process_resume_path(Here, e.name, up))
       ELSE Becomes(Here)
    /\ UNCHANGED <<resumeRoot, orchPc, starts, drops, match_threshold, candidates,
                   matches, lastHandled, rowsIn, resumesIn, injected>>
    /\ UNCHANGED <<busVars, scoreVars, shareVars, mainVars>>

\* orchestrator.py:174-189: KeyboardInterrupt; the observers stop and the
\* events they had not delivered are gone
orch_stop ==
    /\ orchPc \in {"scanned", "watching"}
    /\ orchPc' = "down"
    /\ events' = {}
    /\ UNCHANGED <<jdRoot, processedDir, resumeRoot, clock, starts, drops, handled,
                   lastIngest>>
    /\ UNCHANGED <<busVars, scoreVars, pipeVars, shareVars, mainVars>>

\* a second passes
Tick ==
    /\ clock < MaxClock
    /\ clock' = clock + 1
    /\ UNCHANGED <<jdRoot, processedDir, resumeRoot, orchPc, events, starts, drops,
                   handled, lastIngest>>
    /\ UNCHANGED <<busVars, scoreVars, pipeVars, shareVars, mainVars>>

NextIngest ==
    \/ \E rows \in JobFiles : DropJobFile(rows)
    \/ DropResumeFile
    \/ DropOtherFile
    \/ orch_start
    \/ start_file_watchers
    \/ \E e \in events : on_created(e)
    \/ orch_stop
    \/ Tick

\* OrchestratorAgent.__init__ (orchestrator.py:49-63): the roots exist and are
\* empty, start() has not been called
InitIngest ==
    /\ connection = "open"
    /\ busOp = "idle"
    /\ retry_count = 0
    /\ attempts = 0
    /\ waits = <<>>
    /\ reconnectResult = "none"
    /\ closedAtCall = FALSE
    /\ brokerQueue = <<>>
    /\ nextId = 0
    /\ pending = NoCall
    /\ lastPublish = NoPublish
    /\ consumer = "none"
    /\ stagePc = "init"
    /\ stageSawError = FALSE
    /\ lastDelivery = NoDelivery
    /\ deliveries = [i \in BusIds |-> 0]
    \* calculate_match_score has not been called
    /\ sc_jd_skills = <<>>
    /\ sc_resume_skills = <<>>
    /\ sc_similarity = Rat(0, 1)
    /\ sc_result = <<>>
    \* empty tables and queues (db_manager.py:103-107)
    /\ queues = [q \in Queues |-> <<>>]
    /\ jobs = <<>>
    /\ candidates = <<>>
    /\ matches = <<>>
    /\ match_threshold = DefaultThreshold
    /\ lastHandled = NoHandled
    /\ rowsIn = 0
    /\ resumesIn = 0
    /\ injected = 0
    \* the orchestrator is not running and the roots are empty
    /\ jdRoot = <<>>
    /\ processedDir = <<>>
    /\ resumeRoot = {}
    /\ orchPc = "down"
    /\ events = {}
    /\ clock = 1
    /\ starts = 0
    /\ drops = 0
    /\ handled = NoneHandled
    /\ lastIngest = NoIngest
    \* no thread has been started on the client
    /\ sh_pc = [t \in Threads |-> "init"]
    /\ sh_stage = [t \in Threads |-> "none"]
    /\ sh_ready = [q \in Queues |-> 0]
    /\ sh_unacked = [st \in SharedStages |-> 0]
    /\ sh_events = [st \in SharedStages |-> 0]
    /\ sh_registered = [st \in SharedStages |-> FALSE]
    /\ sh_published = 0
    \* main() has not parsed its arguments
    /\ mn_mode = "none"
    /\ mn_pc = "parse_args"
    /\ mn_agents = [a \in Range(AgentOrder) |-> [state |-> "absent", bus |-> 0, db |-> 0]]
    /\ mn_started = <<>>
    /\ mn_consumers = <<>>
    /\ mn_observers = 0
    /\ mn_joins = 0

SpecIngest == InitIngest
              /\ [][NextIngest]_vars

(* ================== several stages on one RabbitMQClient =============== *)
\* the queue a stage's handler publishes to (jd_summarizer.py:72,
\* resume_parser.py:94, matcher.py:89)
OutputQueue(stage) ==
    CASE stage = "summarizer" -> JD_SUMMARY_QUEUE
      [] stage = "resume_parser" -> RESUME_PROFILE_QUEUE
      [] stage = "matcher" -> EMAIL_QUEUE

\* rabbitmq_client.py:127  basic_qos(prefetch_count=1): the broker sends a
\* consumer a message only while it has fewer than one unacknowledged
may_deliver_unlimited(unacked) == TRUE

may_deliver(unacked) == unacked < 1

\* the calls that read or write the shared channel (rabbitmq_client.py:95,
\* 120, 124, 127, 128, 135)
InChannel(t) ==
    sh_pc[t] \in {"basic_qos", "basic_consume", "start_consuming", "basic_publish",
                  "basic_ack"}

\* a stage's handler is running in thread t
InHandler(t) == sh_pc[t] \in {"handler", "basic_publish"} /\ sh_stage[t] # "none"

\* rabbitmq_client.py:142-150 and 110-127: the consumer thread of a stage
\* starts, finds the connection open and calls basic_qos.  No lock is taken,
\* here or in any other operation of the client
sh_start_consumer(t) ==
    /\ t \in SharedStages
    /\ sh_pc[t] = "init"
    /\ sh_pc' = [sh_pc EXCEPT ![t] = "basic_qos"]
    \* reconnect() (112, 59-76) opens a new connection if it was closed
    /\ connection' = "open"
    /\ UNCHANGED <<sh_stage, sh_ready, sh_unacked, sh_events, sh_registered, sh_published>>
    /\ UNCHANGED <<busOp, retry_count, attempts, waits, reconnectResult, closedAtCall,
                   brokerQueue, nextId, pending, lastPublish, consumer, stagePc,
                   stageSawError, lastDelivery, deliveries>>
    /\ UNCHANGED <<scoreVars, pipeVars, ingestVars, mainVars>>

\* rabbitmq_client.py:128-131: basic_consume registers the stage's consumer
sh_basic_consume(t) ==
    /\ sh_pc[t] = "basic_qos"
    /\ sh_pc' = [sh_pc EXCEPT ![t] = "basic_consume"]
    /\ sh_registered' = [sh_registered EXCEPT ![t] = TRUE]
    /\ UNCHANGED <<sh_stage, sh_ready, sh_unacked, sh_events, sh_published>>
    /\ UNCHANGED <<busVars, scoreVars, pipeVars, ingestVars, mainVars>>

\* rabbitmq_client.py:135: the thread enters the channel's consume loop
sh_start_consuming(t) ==
    /\ sh_pc[t] = "basic_consume"
    /\ sh_pc' = [sh_pc EXCEPT ![t] = "start_consuming"]
    /\ UNCHANGED <<sh_stage, sh_ready, sh_unacked, sh_events, sh_registered, sh_published>>
    /\ UNCHANGED <<busVars, scoreVars, pipeVars, ingestVars, mainVars>>

\* the broker sends the consumer of a stage the next message of its queue
sh_broker_deliver(st) ==
    /\ connection = "open"
    /\ sh_registered[st]
    /\ sh_ready[InputQueue(st)] > 0
    /\ may_deliver(sh_unacked[st])
    /\ sh_ready' = [sh_ready EXCEPT ![InputQueue(st)] = @ - 1]
    /\ sh_unacked' = [sh_unacked EXCEPT ![st] = @ + 1]
    /\ sh_events' = [sh_events EXCEPT ![st] = @ + 1]
    /\ UNCHANGED <<sh_pc, sh_stage, sh_registered, sh_published>>
    /\ UNCHANGED <<busVars, scoreVars, pipeVars, ingestVars, mainVars>>

\* rabbitmq_client.py:116-119: a thread that is in the channel's consume
\* loop takes a received delivery, of whichever consumer, and calls its
\* callback_wrapper, which calls the stage's handler
sh_dispatch(t, st) ==
    /\ sh_pc[t] = "start_consuming"
    /\ sh_events[st] > 0
    /\ sh_events' = [sh_events EXCEPT ![st] = @ - 1]
    /\ sh_pc' = [sh_pc EXCEPT ![t] = "handler"]
    /\ sh_stage' = [sh_stage EXCEPT ![t] = st]
    /\ UNCHANGED <<sh_ready, sh_unacked, sh_registered, sh_published>>
    /\ UNCHANGED <<busVars, scoreVars, pipeVars, ingestVars, mainVars>>

\* the handler calls publish_message (rabbitmq_client.py:88-105)
sh_handler_publish(t) ==
    /\ sh_pc[t] = "handler"
    /\ sh_stage[t] \in {"summarizer", "resume_parser", "matcher"}
    /\ sh_pc' = [sh_pc EXCEPT ![t] = "basic_publish"]
    /\ sh_ready' = [sh_ready EXCEPT ![OutputQueue(sh_stage[t])] = @ + 1]
    /\ UNCHANGED <<sh_stage, sh_unacked, sh_events, sh_registered, sh_published>>
    /\ UNCHANGED <<busVars, scoreVars, pipeVars, ingestVars, mainVars>>

\* rabbitmq_client.py:128-131: basic_consume without auto_ack, so the broker
\* keeps a delivered message until its basic_ack and puts the unacknowledged
\* ones back on the queue when the consumer's connection ends
requeue_dropped(ready, unacked) == ready

requeue(ready, unacked) == ready + unacked

\* the connection ends while consumers are on it: the network or the broker
\* drops it, or main()'s cleanup closes it (main.py:96-97,
\* rabbitmq_client.py:152-156) while the daemon threads still run.  The
\* broker cancels the consumers and requeues what they had not acknowledged
sh_connection_closed ==
    /\ connection = "open"
    /\ \E st \in SharedStages : sh_registered[st]
    /\ connection' = "closed"
    /\ sh_ready' = [q \in Queues |->
                      IF \E st \in SharedStages : InputQueue(st) = q
                      THEN requeue(sh_ready[q],
                                   sh_unacked[CHOOSE st \in SharedStages : InputQueue(st) = q])
                      ELSE sh_ready[q]]
    /\ sh_unacked' = [st \in SharedStages |-> 0]
    /\ sh_events' = [st \in SharedStages |-> 0]
    /\ sh_registered' = [st \in SharedStages |-> FALSE]
    /\ UNCHANGED <<sh_pc, sh_stage, sh_published>>
    /\ UNCHANGED <<busOp, retry_count, attempts, waits, reconnectResult, closedAtCall,
                   brokerQueue, nextId, pending, lastPublish, consumer, stagePc,
                   stageSawError, lastDelivery, deliveries>>
    /\ UNCHANGED <<scoreVars, pipeVars, ingestVars, mainVars>>

\* rabbitmq_client.py:119-124 and 138-140: the handler has returned but the
\* connection its message came on has ended: basic_ack raises on the closed
\* channel, so does the basic_nack of the except branch, the exception
\* leaves start_consuming and the thread ends.  The broker gets no ack
sh_ack_fails(t) ==
    /\ InHandler(t)
    /\ sh_unacked[sh_stage[t]] = 0
    /\ sh_pc' = [sh_pc EXCEPT ![t] = "ended"]
    /\ sh_stage' = [sh_stage EXCEPT ![t] = "none"]
    /\ UNCHANGED <<sh_ready, sh_unacked, sh_events, sh_registered, sh_published>>
    /\ UNCHANGED <<busVars, scoreVars, pipeVars, ingestVars, mainVars>>

\* rabbitmq_client.py:119-120: the handler has returned and callback_wrapper
\* calls basic_ack, which the broker receives
sh_handler_return(t) ==
    /\ InHandler(t)
    /\ sh_unacked[sh_stage[t]] > 0
    /\ sh_pc' = [sh_pc EXCEPT ![t] = "basic_ack"]
    /\ sh_unacked' = [sh_unacked EXCEPT ![sh_stage[t]] = @ - 1]
    /\ UNCHANGED <<sh_stage, sh_ready, sh_events, sh_registered, sh_published>>
    /\ UNCHANGED <<busVars, scoreVars, pipeVars, ingestVars, mainVars>>

\* basic_ack returns; the thread is back in the consume loop
sh_ack_done(t) ==
    /\ sh_pc[t] = "basic_ack"
    /\ sh_pc' = [sh_pc EXCEPT ![t] = "start_consuming"]
    /\ sh_stage' = [sh_stage EXCEPT ![t] = "none"]
    /\ UNCHANGED <<sh_ready, sh_unacked, sh_events, sh_registered, sh_published>>
    /\ UNCHANGED <<busVars, scoreVars, pipeVars, ingestVars, mainVars>>

\* orchestrator.py:92 and 116: the orchestrator's thread calls
\* publish_message for a job row or a resume
sh_orch_publish(q) ==
    /\ sh_pc["orchestrator"] \in {"init", "idle"}
    /\ sh_published < MaxSharedMsgs
    /\ sh_published' = sh_published + 1
    /\ sh_pc' = [sh_pc EXCEPT !["orchestrator"] = "basic_publish"]
    /\ sh_ready' = [sh_ready EXCEPT ![q] = @ + 1]
    /\ UNCHANGED <<sh_stage, sh_unacked, sh_events, sh_registered>>
    /\ UNCHANGED <<busVars, scoreVars, pipeVars, ingestVars, mainVars>>

\* publish_message returns to the orchestrator
sh_orch_published ==
    /\ sh_pc["orchestrator"] = "basic_publish"
    /\ sh_pc' = [sh_pc EXCEPT !["orchestrator"] = "idle"]
    /\ UNCHANGED <<sh_stage, sh_ready, sh_unacked, sh_events, sh_registered, sh_published>>
    /\ UNCHANGED <<busVars, scoreVars, pipeVars, ingestVars, mainVars>>

\* rabbitmq_client.py:138-140: the consume loop of a thread raises while
\* another thread is using the channel (pika's BlockingConnection is not
\* thread-safe); the except branch calls stop_consuming, which cancels every
\* consumer of the channel, and the thread ends
sh_consume_error(t) ==
    /\ sh_pc[t] = "start_consuming"
    /\ \E u \in Threads \ {t} : InChannel(u)
    /\ sh_pc' = [sh_pc EXCEPT ![t] = "ended"]
    /\ sh_registered' = [st \in SharedStages |-> FALSE]
    /\ UNCHANGED <<sh_stage, sh_ready, sh_unacked, sh_events, sh_published>>
    /\ UNCHANGED <<busVars, scoreVars, pipeVars, ingestVars, mainVars>>

\* rabbitmq_client.py:135: start_consuming returns once the channel has no
\* consumer left, and the thread ends
sh_loop_exit(t) ==
    /\ sh_pc[t] = "start_consuming"
    /\ \A st \in SharedStages : ~sh_registered[st]
    /\ sh_pc' = [sh_pc EXCEPT ![t] = "ended"]
    /\ UNCHANGED <<sh_stage, sh_ready, sh_unacked, sh_events, sh_registered, sh_published>>
    /\ UNCHANGED <<busVars, scoreVars, pipeVars, ingestVars, mainVars>>

NextShared ==
    \/ \E t \in Threads : sh_start_consumer(t)
    \/ \E t \in Threads : sh_basic_consume(t)
    \/ \E t \in Threads : sh_start_consuming(t)
    \/ \E st \in SharedStages : sh_broker_deliver(st)
    \/ \E t \in Threads, st \in SharedStages : sh_dispatch(t, st)
    \/ \E t \in Threads : sh_handler_publish(t)
    \/ \E t \in Threads : sh_handler_return(t)
    \/ sh_connection_closed
    \/ \E t \in Threads : sh_ack_fails(t)
    \/ \E t \in Threads : sh_ack_done(t)
    \/ \E q \in {JD_QUEUE, RESUME_QUEUE} : sh_orch_publish(q)
    \/ sh_orch_published
    \/ \E t \in Threads : sh_consume_error(t)
    \/ \E t \in Threads : sh_loop_exit(t)

\* main.py:42-44: main() has built the one RabbitMQClient; no agent thread
\* has been started
InitShared ==
    /\ connection = "open"
    /\ busOp = "idle"
    /\ retry_count = 0
    /\ attempts = 0
    /\ waits = <<>>
    /\ reconnectResult = "none"
    /\ closedAtCall = FALSE
    /\ brokerQueue = <<>>
    /\ nextId = 0
    /\ pending = NoCall
    /\ lastPublish = NoPublish
    /\ consumer = "none"
    /\ stagePc = "init"
    /\ stageSawError = FALSE
    /\ lastDelivery = NoDelivery
    /\ deliveries = [i \in BusIds |-> 0]
    \* calculate_match_score has not been called
    /\ sc_jd_skills = <<>>
    /\ sc_resume_skills = <<>>
    /\ sc_similarity = Rat(0, 1)
    /\ sc_result = <<>>
    \* empty tables and queues (db_manager.py:103-107)
    /\ queues = [q \in Queues |-> <<>>]
    /\ jobs = <<>>
    /\ candidates = <<>>
    /\ matches = <<>>
    /\ match_threshold = DefaultThreshold
    /\ lastHandled = NoHandled
    /\ rowsIn = 0
    /\ resumesIn = 0
    /\ injected = 0
    \* the orchestrator is not running and the roots are empty
    /\ jdRoot = <<>>
    /\ processedDir = <<>>
    /\ resumeRoot = {}
    /\ orchPc = "down"
    /\ events = {}
    /\ clock = 1
    /\ starts = 0
    /\ drops = 0
    /\ handled = NoneHandled
    /\ lastIngest = NoIngest
    \* no thread has been started on the client
    /\ sh_pc = [t \in Threads |-> "init"]
    /\ sh_stage = [t \in Threads |-> "none"]
    /\ sh_ready = [q \in Queues |-> 0]
    /\ sh_unacked = [st \in SharedStages |-> 0]
    /\ sh_events = [st \in SharedStages |-> 0]
    /\ sh_registered = [st \in SharedStages |-> FALSE]
    /\ sh_published = 0
    \* main() has not parsed its arguments
    /\ mn_mode = "none"
    /\ mn_pc = "parse_args"
    /\ mn_agents = [a \in Range(AgentOrder) |-> [state |-> "absent", bus |-> 0, db |-> 0]]
    /\ mn_started = <<>>
    /\ mn_consumers = <<>>
    /\ mn_observers = 0
    /\ mn_joins = 0

SpecShared == InitShared
              /\ [][NextShared]_vars

(* ================================ main() =============================== *)
\* main.py:50, 56, 62, 68, 76: if args.mode in ["all", <the agent's mode>]
selected_always(mode, agent) == TRUE

selected(mode, agent) ==
    mode \in {"all",
              CASE agent = "summarizer" -> "jd"
                [] agent = "resume_parser" -> "resume"
                [] agent = "matcher" -> "matcher"
                [] agent = "notifier" -> "email"
                [] agent = "orchestrator" -> "orchestrator"}

\* rabbitmq_client.py:152-156  close()
close_noop(conn) == conn

close(conn) == IF conn = "open" THEN "closed" ELSE conn

\* rabbitmq_client.py:82  channel.queue_declare(queue=queue, durable=True):
\* what queue q holds after the call.  A queue the broker has keeps its
\* messages; one it does not have is created empty
queue_declare_purge(qs, q) == <<>>

queue_declare(qs, q) == IF q \in DOMAIN qs THEN qs[q] ELSE <<>>

\* rabbitmq_client.py:78-86 over self.queues (31-38)
declare_queues(qs) == [q \in DOMAIN qs \cup Queues |-> queue_declare(qs, q)]

\* main.py:37-44: parse_args; then the one DatabaseManager and the one
\* RabbitMQClient are built (the broker is reachable): __init__ connects and
\* declares the queues (rabbitmq_client.py:27-39)
mn_parse_args(mode) ==
    /\ mn_pc = "parse_args"
    /\ connection = "open"
    /\ mn_mode' = mode
    /\ mn_pc' = "start_agents"
    /\ queues' = declare_queues(queues)
    /\ UNCHANGED <<mn_agents, mn_started, mn_consumers, mn_observers, mn_joins>>
    /\ UNCHANGED <<jobs, candidates, matches, match_threshold, lastHandled, rowsIn,
                   resumesIn, injected>>
    /\ UNCHANGED <<busVars, scoreVars, ingestVars, shareVars>>

\* main.py:50-85 with start_agent (27-33): the next selected agent is
\* constructed on the shared objects and its start() is handed to a daemon
\* thread; after the last one main() sleeps in its loop
mn_start_agent ==
    /\ mn_pc = "start_agents"
    /\ LET todo == {i \in DOMAIN AgentOrder :
                      /\ selected(mn_mode, AgentOrder[i])
                      /\ mn_agents[AgentOrder[i]].state = "absent"}
       IN  IF todo = {}
           THEN /\ mn_pc' = "sleep"
                /\ UNCHANGED <<mn_agents, mn_started>>
           ELSE LET a == AgentOrder[CHOOSE i \in todo : \A j \in todo : i <= j]
                IN  /\ mn_agents' = [mn_agents EXCEPT
                                        ![a] = [state |-> "started", bus |-> 1, db |-> 1]]
                    /\ mn_started' = Append(mn_started, a)
                    /\ UNCHANGED mn_pc
    /\ UNCHANGED <<mn_mode, mn_consumers, mn_observers, mn_joins>>
    /\ UNCHANGED <<busVars, scoreVars, pipeVars, ingestVars, shareVars>>

\* the agent's start() runs in its thread.  A stage agent calls
\* start_consumer_thread(<its queue>, handle_message) (jd_summarizer.py:92,
\* resume_parser.py:114, matcher.py:125, email_agent.py:108), whose
\* consume_messages reconnects if the connection is closed (reconnect, 59-76:
\* connect and declare_queues) and registers the consumer; the orchestrator scans and starts its two observers
\* (orchestrator.py:165-168).  Then start() sleeps in its loop
mn_agent_start(a) ==
    /\ mn_pc # "exited"
    /\ mn_agents[a].state = "started"
    /\ mn_agents' = [mn_agents EXCEPT ![a].state = "running"]
    /\ IF a = "orchestrator"
       THEN /\ mn_observers' = 2
            /\ UNCHANGED <<mn_consumers, connection, queues>>
       ELSE /\ mn_consumers' = Append(mn_consumers, [agent |-> a, queue |-> InputQueue(a)])
            /\ connection' = "open"
            /\ queues' = IF connection = "closed" THEN declare_queues(queues) ELSE queues
            /\ UNCHANGED mn_observers
    /\ UNCHANGED <<mn_mode, mn_pc, mn_started, mn_joins>>
    /\ UNCHANGED <<busOp, retry_count, attempts, waits, reconnectResult, closedAtCall,
                   brokerQueue, nextId, pending, lastPublish, consumer, stagePc,
                   stageSawError, lastDelivery, deliveries>>
    /\ UNCHANGED <<jobs, candidates, matches, match_threshold, lastHandled, rowsIn,
                   resumesIn, injected>>
    /\ UNCHANGED <<scoreVars, ingestVars, shareVars>>

\* the agent's start() raises before its loop: the except branch logs and
\* the finally branch closes the client it was given (jd_summarizer.py:
\* 100-104, orchestrator.py:176-189, the same in the other agents)
mn_agent_fail(a) ==
    /\ mn_pc # "exited"
    /\ mn_agents[a].state = "started"
    /\ mn_agents' = [mn_agents EXCEPT ![a].state = "ended"]
    /\ connection' = close(connection)
    /\ UNCHANGED <<mn_mode, mn_pc, mn_started, mn_consumers, mn_observers, mn_joins>>
    /\ UNCHANGED <<busOp, retry_count, attempts, waits, reconnectResult, closedAtCall,
                   brokerQueue, nextId, pending, lastPublish, consumer, stagePc,
                   stageSawError, lastDelivery, deliveries>>
    /\ UNCHANGED <<scoreVars, pipeVars, ingestVars, shareVars>>

\* main.py:87-88: KeyboardInterrupt in the main thread
mn_interrupt ==
    /\ mn_pc \in {"start_agents", "sleep"}
    /\ mn_pc' = "join"
    /\ UNCHANGED <<mn_mode, mn_agents, mn_started, mn_consumers, mn_observers, mn_joins>>
    /\ UNCHANGED <<busVars, scoreVars, pipeVars, ingestVars, shareVars>>

\* main.py:93-94: thread.join(timeout=1.0) on the next started thread
mn_join ==
    /\ mn_pc = "join"
    /\ mn_joins < Len(mn_started)
    /\ mn_joins' = mn_joins + 1
    /\ UNCHANGED <<mn_mode, mn_pc, mn_agents, mn_started, mn_consumers, mn_observers>>
    /\ UNCHANGED <<busVars, scoreVars, pipeVars, ingestVars, shareVars>>

\* main.py:96-97: rabbitmq_client.close()
mn_close ==
    /\ mn_pc = "join"
    /\ mn_joins = Len(mn_started)
    /\ mn_pc' = "exit"
    /\ connection' = close(connection)
    /\ UNCHANGED <<mn_mode, mn_agents, mn_started, mn_consumers, mn_observers, mn_joins>>
    /\ UNCHANGED <<busOp, retry_count, attempts, waits, reconnectResult, closedAtCall,
                   brokerQueue, nextId, pending, lastPublish, consumer, stagePc,
                   stageSawError, lastDelivery, deliveries>>
    /\ UNCHANGED <<scoreVars, pipeVars, ingestVars, shareVars>>

\* main.py:99-102: main() returns.  Every other thread is a daemon thread
\* (main.py:31, rabbitmq_client.py:147, the watchdog observers), so the
\* process ends and takes them and its sockets with it
mn_exit ==
    /\ mn_pc = "exit"
    /\ mn_pc' = "exited"
    /\ mn_agents' = [a \in DOMAIN mn_agents |->
                        IF mn_agents[a].state \in {"started", "running"}
                        THEN [mn_agents[a] EXCEPT !.state = "ended"]
                        ELSE mn_agents[a]]
    /\ mn_consumers' = <<>>
    /\ mn_observers' = 0
    /\ connection' = "closed"
    /\ UNCHANGED <<mn_mode, mn_started, mn_joins>>
    /\ UNCHANGED <<busOp, retry_count, attempts, waits, reconnectResult, closedAtCall,
                   brokerQueue, nextId, pending, lastPublish, consumer, stagePc,
                   stageSawError, lastDelivery, deliveries>>
    /\ UNCHANGED <<scoreVars, pipeVars, ingestVars, shareVars>>

NextMain ==
    \/ \E mode \in {"all", "orchestrator", "jd", "resume", "matcher", "email"} :
          mn_parse_args(mode)
    \/ mn_start_agent
    \/ \E a \in Range(AgentOrder) : mn_agent_start(a)
    \/ \E a \in Range(AgentOrder) : mn_agent_fail(a)
    \/ mn_interrupt
    \/ mn_join
    \/ mn_close
    \/ mn_exit

\* the process has been started: python main.py --mode <mode>
InitMain ==
    /\ connection = "open"
    /\ busOp = "idle"
    /\ retry_count = 0
    /\ attempts = 0
    /\ waits = <<>>
    /\ reconnectResult = "none"
    /\ closedAtCall = FALSE
    /\ brokerQueue = <<>>
    /\ nextId = 0
    /\ pending = NoCall
    /\ lastPublish = NoPublish
    /\ consumer = "none"
    /\ stagePc = "init"
    /\ stageSawError = FALSE
    /\ lastDelivery = NoDelivery
    /\ deliveries = [i \in BusIds |-> 0]
    \* calculate_match_score has not been called
    /\ sc_jd_skills = <<>>
    /\ sc_resume_skills = <<>>
    /\ sc_similarity = Rat(0, 1)
    /\ sc_result = <<>>
    \* the broker as an earlier process left it: without queues, with some
    \* or with all of them, and possibly a message still waiting
    /\ \E D \in {{}, {JD_QUEUE, EMAIL_QUEUE}, Queues}, left \in BOOLEAN :
          queues = [q \in D |-> IF left /\ q = EMAIL_QUEUE
                                THEN <<[match_id |-> 1]>> ELSE <<>>]
    \* empty tables (db_manager.py:103-107)
    /\ jobs = <<>>
    /\ candidates = <<>>
    /\ matches = <<>>
    /\ match_threshold = DefaultThreshold
    /\ lastHandled = NoHandled
    /\ rowsIn = 0
    /\ resumesIn = 0
    /\ injected = 0
    \* the orchestrator is not running and the roots are empty
    /\ jdRoot = <<>>
    /\ processedDir = <<>>
    /\ resumeRoot = {}
    /\ orchPc = "down"
    /\ events = {}
    /\ clock = 1
    /\ starts = 0
    /\ drops = 0
    /\ handled = NoneHandled
    /\ lastIngest = NoIngest
    \* no thread has been started on the client
    /\ sh_pc = [t \in Threads |-> "init"]
    /\ sh_stage = [t \in Threads |-> "none"]
    /\ sh_ready = [q \in Queues |-> 0]
    /\ sh_unacked = [st \in SharedStages |-> 0]
    /\ sh_events = [st \in SharedStages |-> 0]
    /\ sh_registered = [st \in SharedStages |-> FALSE]
    /\ sh_published = 0
    \* main() has not parsed its arguments
    /\ mn_mode = "none"
    /\ mn_pc = "parse_args"
    /\ mn_agents = [a \in Range(AgentOrder) |-> [state |-> "absent", bus |-> 0, db |-> 0]]
    /\ mn_started = <<>>
    /\ mn_consumers = <<>>
    /\ mn_observers = 0
    /\ mn_joins = 0

\* the main thread runs: it goes on starting agents, joining, closing and
\* returning; the interrupt and the agents' threads have no fairness
SpecMain == InitMain
            /\ [][NextMain]_vars
            /\ WF_vars(mn_start_agent)
            /\ WF_vars(mn_join)
            /\ WF_vars(mn_close)
            /\ WF_vars(mn_exit)

(* ============================== SpecScore ============================== *)
RECURSIVE SeqsUpTo(_, _)
SeqsUpTo(S, n) ==
    IF n = 0 THEN {<<>>}
    ELSE LET shorter == SeqsUpTo(S, n - 1)
         IN  shorter \cup {Append(q, x) : q \in shorter, x \in S}

SkillLists == SeqsUpTo(SkillTokens, MaxSkillList)

\* the similarity is a cosine: anything in [-1, 1]; the grid keeps a few
\* negative values
SimValues == {Rat(k, SimGrid) : k \in (-2)..SimGrid}

\* the arguments of one calculate_match_score call
InitScore ==
    \* RabbitMQClient.__init__ (rabbitmq_client.py:24-39) has connected
    /\ connection = "open"
    /\ busOp = "idle"
    /\ retry_count = 0
    /\ attempts = 0
    /\ waits = <<>>
    /\ reconnectResult = "none"
    /\ closedAtCall = FALSE
    /\ brokerQueue = <<>>
    /\ nextId = 0
    /\ pending = NoCall
    /\ lastPublish = NoPublish
    /\ consumer = "none"
    /\ stagePc = "init"
    /\ stageSawError = FALSE
    /\ lastDelivery = NoDelivery
    /\ deliveries = [i \in BusIds |-> 0]
    /\ sc_jd_skills \in SkillLists
    /\ sc_resume_skills \in SkillLists
    /\ sc_similarity \in SimValues
    /\ sc_result = <<>>
    \* empty tables and queues (db_manager.py:103-107)
    /\ queues = [q \in Queues |-> <<>>]
    /\ jobs = <<>>
    /\ candidates = <<>>
    /\ matches = <<>>
    /\ match_threshold = DefaultThreshold
    /\ lastHandled = NoHandled
    /\ rowsIn = 0
    /\ resumesIn = 0
    /\ injected = 0
    \* the orchestrator is not running and the roots are empty
    /\ jdRoot = <<>>
    /\ processedDir = <<>>
    /\ resumeRoot = {}
    /\ orchPc = "down"
    /\ events = {}
    /\ clock = 1
    /\ starts = 0
    /\ drops = 0
    /\ handled = NoneHandled
    /\ lastIngest = NoIngest
    \* no thread has been started on the client
    /\ sh_pc = [t \in Threads |-> "init"]
    /\ sh_stage = [t \in Threads |-> "none"]
    /\ sh_ready = [q \in Queues |-> 0]
    /\ sh_unacked = [st \in SharedStages |-> 0]
    /\ sh_events = [st \in SharedStages |-> 0]
    /\ sh_registered = [st \in SharedStages |-> FALSE]
    /\ sh_published = 0
    \* main() has not parsed its arguments
    /\ mn_mode = "none"
    /\ mn_pc = "parse_args"
    /\ mn_agents = [a \in Range(AgentOrder) |-> [state |-> "absent", bus |-> 0, db |-> 0]]
    /\ mn_started = <<>>
    /\ mn_consumers = <<>>
    /\ mn_observers = 0
    /\ mn_joins = 0

Score ==
    /\ sc_result = <<>>
    /\ sc_result' = <<calculate_match_score([skills |-> sc_jd_skills],
                                            [skills |-> sc_resume_skills],
                                            sc_similarity)>>
    /\ UNCHANGED <<sc_jd_skills, sc_resume_skills, sc_similarity>>
    /\ UNCHANGED <<busVars, pipeVars, ingestVars, shareVars, mainVars>>

NextScore == Score

SpecScore == InitScore
             /\ [][NextScore]_vars

(* =============================== claims ================================ *)

(* ---- C1 (SpecBus) ---- *)
\* C1: for every message consume delivers, a callback that returns normally
\* on a decodable body gets the message acknowledged and removed from the
\* queue; if decoding or the callback raises, the message is negatively
\* acknowledged with requeue and stays at the head of the queue, from where
\* it is delivered again.
C1_AckOrRequeue ==
    lastDelivery.id # 0 =>
        LET ok == lastDelivery.decoded /\ lastDelivery.called /\ ~lastDelivery.raised
            held == {i \in DOMAIN brokerQueue : brokerQueue[i].id = lastDelivery.id}
        IN  /\ ok => lastDelivery.verdict = "ack" /\ held = {}
            /\ ~ok => lastDelivery.verdict = "nack" /\ held = {1}

\* a message is nacked because its callback raised, delivered a second time
\* and then acknowledged
C1_RedeliveredThenAcked ==
    /\ lastDelivery.id # 0
    /\ deliveries[lastDelivery.id] >= 2
    /\ lastDelivery.verdict = "ack"
    /\ \A i \in DOMAIN brokerQueue : brokerQueue[i].id # lastDelivery.id

(* ---- C2 (Spec) ---- *)
\* C2: for each of the four stages and every payload delivered to it, the
\* handler catches every exception and returns normally, so the delivery is
\* acknowledged: the message leaves the stage's input queue and the broker
\* cannot deliver it again.
C2_HandlerAlwaysAcked ==
    /\ [](lastHandled.stage \in Stages => lastHandled.verdict = "ack")
    /\ [][lastHandled' # lastHandled =>
            LET q == InputQueue(lastHandled'.stage)
            IN  /\ queues[q] # <<>>
                /\ lastHandled'.msg = Head(queues[q])
                /\ queues'[q] = Tail(queues[q])]_vars

\* the matcher's try block failed on a well-formed profile (scoring or the
\* database raised) and the delivery was acknowledged all the same
C2_MatcherFailedAndAcked ==
    /\ lastHandled.stage = "matcher"
    /\ RequiredFields("matcher") \subseteq DOMAIN lastHandled.msg
    /\ lastHandled.error
    /\ lastHandled.verdict = "ack"
    /\ queues[RESUME_PROFILE_QUEUE] = <<>>

(* ---- C3 (Spec) ---- *)
\* C3: a malformed message, one that lacks a field its handler requires so
\* that the handler throws, is acknowledged, leaves the input queue (it is
\* not redelivered) and no message is published on any queue.
C3_MalformedDropped ==
    /\ [](lastHandled.stage \in Stages
          /\ ~(RequiredFields(lastHandled.stage) \subseteq DOMAIN lastHandled.msg)
          => /\ lastHandled.error
             /\ lastHandled.verdict = "ack"
             /\ lastHandled.pubs = <<>>)
    /\ [][(/\ lastHandled' # lastHandled
           /\ ~(RequiredFields(lastHandled'.stage) \subseteq DOMAIN lastHandled'.msg))
          => queues' = [queues EXCEPT ![InputQueue(lastHandled'.stage)] = Tail(@)]]_vars

\* a profile message without parsed_resume reached the matcher while a job
\* was in the table: acknowledged, nothing on the match or email queues
C3_MalformedProfileDropped ==
    /\ lastHandled.stage = "matcher"
    /\ "parsed_resume" \notin DOMAIN lastHandled.msg
    /\ lastHandled.jobsSeen >= 1
    /\ lastHandled.error
    /\ lastHandled.verdict = "ack"
    /\ lastHandled.pubs = <<>>
    /\ queues[RESUME_PROFILE_QUEUE] = <<>>
    /\ queues[MATCH_QUEUE] = <<>>
    /\ queues[EMAIL_QUEUE] = <<>>

(* ---- C4 (SpecBus) ---- *)
\* C4: publish_message never raises to its caller: every finished call has
\* returned True or False; it returned True only if the body was handed to
\* the broker, and False whenever reconnect() gave up or the hand-off failed
\* (then the broker never got the body).
C4_PublishReportsBoolean ==
    lastPublish.id # 0 =>
        LET atBroker == \/ \E i \in DOMAIN brokerQueue : brokerQueue[i].id = lastPublish.id
                        \/ deliveries[lastPublish.id] > 0
        IN  /\ lastPublish.result \in {"true", "false"}
            /\ lastPublish.result = "true" <=> atBroker
            /\ ~lastPublish.reconnected => lastPublish.result = "false"

\* a publish on a closed connection whose five reconnection attempts all
\* failed has returned False
C4_PublishGaveUp ==
    /\ lastPublish.id # 0
    /\ ~lastPublish.reconnected
    /\ lastPublish.result = "false"
    /\ reconnectResult = "false"
    /\ Len(waits) = MaxRetries

(* ---- C5 (SpecBus) ---- *)
\* C5: on a closed connection reconnect() makes at most 5 connection
\* attempts, sleeps 2, 4, 8, 16, 32 seconds after the successive failures,
\* returns False after the 5th failure and True right after the first
\* attempt that succeeds; on an open connection it makes no attempt.
C5_BoundedBackoff ==
    LET backoff == <<2, 4, 8, 16, 32>>
    IN  /\ attempts <= 5
        /\ Len(waits) <= 5
        /\ \A i \in DOMAIN waits : waits[i] = backoff[i]
        /\ reconnectResult = "running" => closedAtCall /\ attempts = Len(waits) /\ attempts < 5
        /\ reconnectResult = "false" => closedAtCall /\ attempts = 5 /\ waits = backoff
        /\ (reconnectResult = "true" /\ closedAtCall) => attempts = Len(waits) + 1
        /\ (reconnectResult = "true" /\ ~closedAtCall) => attempts = 0 /\ waits = <<>>

\* reconnect() has given up after five failed attempts and the five waits
C5_GaveUpAfterFive ==
    /\ reconnectResult = "false"
    /\ closedAtCall
    /\ attempts = 5
    /\ waits = <<2, 4, 8, 16, 32>>

(* ---- C6 (SpecBus) ---- *)
\* C6: when reconnect() is exhausted before consuming starts, the raise of
\* consume_messages reaches the owning stage: whenever the registration has
\* raised, the stage's start() has seen the error.
C6_StageObservesFailure ==
    consumer = "raised" => stageSawError

(* ---- C7 (SpecMatch) ---- *)
\* C7: in one matcher evaluation an email-queue message is published for a
\* (job, candidate) pair if and only if the pair's final score is >= the
\* configured match threshold, and exactly one per qualifying job: k
\* qualifying jobs of n evaluated give exactly k email-queue messages.
C7_EmailIffQualified ==
    lastHandled.stage = "matcher" =>
        LET pubs == lastHandled.pubs
            new == (lastHandled.matchesBefore + 1)..Len(matches)
            emails == {i \in DOMAIN pubs : pubs[i].queue = EMAIL_QUEUE}
            emailsFor(m) == {i \in emails :
                                /\ pubs[i].payload.match_id = matches[m].id
                                /\ pubs[i].payload.job_id = matches[m].job_id
                                /\ pubs[i].payload.candidate_id = matches[m].candidate_id
                                /\ pubs[i].payload.score = matches[m].score}
            qualifying == {m \in new : RatGE(matches[m].score, match_threshold)}
        IN  /\ \A m \in new : Cardinality(emailsFor(m)) = IF m \in qualifying THEN 1 ELSE 0
            /\ \A i \in emails : \E m \in new : i \in emailsFor(m)
            /\ Cardinality(emails) = Cardinality(qualifying)
            /\ Len(queues[EMAIL_QUEUE]) = Cardinality(qualifying)

\* scenario C: three jobs evaluated, one of them qualifies, one email message
C7_OneOfThreeQualifies ==
    /\ lastHandled.stage = "matcher"
    /\ ~lastHandled.error
    /\ Len(matches) - lastHandled.matchesBefore = 3
    /\ Cardinality({m \in DOMAIN matches : RatGE(matches[m].score, match_threshold)}) = 1
    /\ Len(queues[EMAIL_QUEUE]) = 1

(* ---- C8 (SpecMatch) ---- *)
\* C8: a matcher evaluation that reaches the end of its loop publishes
\* exactly one aggregate match-queue message, after every email message of
\* the evaluation and whether or not any match qualifies; its matches list
\* has one entry per evaluated job, each with qualified = (score >= the
\* configured threshold).  (An evaluation that an exception ends publishes
\* no aggregate.)
C8_OneAggregateListsAll ==
    lastHandled.stage = "matcher" =>
        LET pubs == lastHandled.pubs
            aggs == {i \in DOMAIN pubs : pubs[i].queue = MATCH_QUEUE}
            \* the evaluation is the second of the candidate: the profile
            \* message was delivered again and has been handled again
            again == injected = 1 /\ queues[RESUME_PROFILE_QUEUE] = <<>>
            q == queues[MATCH_QUEUE]
        IN  /\ lastHandled.error => aggs = {} /\ Len(q) = injected
            /\ ~lastHandled.error =>
                 /\ aggs = {Len(pubs)}
                 /\ Len(q) = IF again THEN 2 ELSE 1
                 /\ q[Len(q)] = pubs[Len(pubs)].payload
                 /\ LET a == pubs[Len(pubs)].payload
                    IN  /\ a.candidate_id = lastHandled.msg.candidate_id
                        /\ Len(a.matches) = lastHandled.jobsSeen
                        /\ Len(matches) = lastHandled.matchesBefore + lastHandled.jobsSeen
                        /\ \A i \in DOMAIN a.matches :
                             /\ a.matches[i].job_id = jobs[i].job_id
                             /\ a.matches[i].score = matches[lastHandled.matchesBefore + i].score
                             /\ a.matches[i].qualified =
                                   RatGE(a.matches[i].score, match_threshold)

\* three jobs evaluated, none qualifies: the aggregate is published and lists
\* all three, no email message
C8_AggregateWithoutQualifier ==
    /\ lastHandled.stage = "matcher"
    /\ ~lastHandled.error
    /\ lastHandled.jobsSeen = 3
    /\ Len(queues[MATCH_QUEUE]) = 1
    /\ Len(queues[MATCH_QUEUE][1].matches) = 3
    /\ \A i \in 1..3 : ~queues[MATCH_QUEUE][1].matches[i].qualified
    /\ queues[EMAIL_QUEUE] = <<>>

(* ---- C9 (SpecMatch) ---- *)
\* C9: for every persisted Match and every configured threshold, shortlisted
\* is true iff the score cleared the configured match threshold, the one the
\* matcher uses for the qualified flag and the email decision.
C9_ShortlistedUsesConfiguredThreshold ==
    \A m \in DOMAIN matches :
        matches[m].shortlisted = RatGE(matches[m].score, match_threshold)

(* ---- C10 (SpecScore) ---- *)
\* C10: calculate_match_score returns final_score = 0.7 * s + 0.3 * f exactly
\* (s the similarity, f the skill overlap), with no clamping or rounding, so
\* the score is in [0, 1] whenever s and f are.
C10_WeightedSum ==
    sc_result # <<>> =>
        LET r == sc_result[1]
            s == sc_similarity
            f == r.matching_details.skill_match_percentage
        IN  /\ r.matching_details.overall_similarity = s
            /\ f.n >= 0 /\ f.n <= f.d
            /\ r.score.n * (10 * s.d * f.d) = r.score.d * (7 * s.n * f.d + 3 * f.n * s.d)
            /\ (s.n >= 0 /\ s.n <= s.d) => (r.score.n >= 0 /\ r.score.n <= r.score.d)

\* scenario A: job skills [Python, SQL], resume skills [python, java],
\* similarity 0.9: overlap 0.5, score 0.78
C10_ScenarioA ==
    /\ sc_jd_skills = <<"Python", "SQL">>
    /\ sc_resume_skills = <<"python", "java">>
    /\ sc_similarity = Rat(9, 10)
    /\ sc_result # <<>>
    /\ sc_result[1].matching_details.skill_match_percentage = Rat(1, 2)
    /\ sc_result[1].score = Rat(78, 100)

(* ---- C11 (SpecScore) ---- *)
\* C11: the skill overlap is the number of distinct job skills that also
\* occur among the resume skills, compared without regard to case, divided
\* by the number of distinct job skills; it is 0 when the job lists no skill,
\* whatever the resume lists; matching_skills is exactly that intersection.
C11_SkillOverlap ==
    sc_result # <<>> =>
        LET canon == [t \in SkillTokens |->
                         CASE t \in {"Python", "python"} -> "python"
                           [] t = "SQL" -> "sql"
                           [] t = "java" -> "java"]
            job == {canon[sc_jd_skills[i]] : i \in DOMAIN sc_jd_skills}
            cand == {canon[sc_resume_skills[i]] : i \in DOMAIN sc_resume_skills}
            common == {x \in job : x \in cand}
            d == sc_result[1].matching_details
            f == d.skill_match_percentage
        IN  /\ d.matching_skills = common
            /\ job = {} => f = Rat(0, 1)
            /\ job # {} => f.n * Cardinality(job) = Cardinality(common) * f.d

\* a job without skills scored against a resume that lists skills: overlap 0
C11_NoJobSkills ==
    /\ sc_jd_skills = <<>>
    /\ sc_resume_skills = <<"python", "SQL">>
    /\ sc_result # <<>>
    /\ sc_result[1].matching_details.skill_match_percentage = Rat(0, 1)
    /\ sc_result[1].matching_details.matching_skills = {}

(* C12: a job file that has been moved into processed/ is out of the
   watched root, no pending created-event names it, and no later step (a
   scan after a restart or a live event) processes it again. *)
C12_ArchivedNeverReprocessed ==
    /\ [](\A n \in DOMAIN processedDir :
            /\ n \notin DOMAIN jdRoot
            /\ [root |-> "jd", name |-> n] \notin events)
    /\ [][\A n \in DOMAIN processedDir :
            /\ n \in DOMAIN processedDir'
            /\ handled'[n] = handled[n]]_vars

\* a file archived in the first start, and a second start whose scan has run
C12_RestartAfterArchive ==
    /\ starts = 2
    /\ orchPc = "scanned"
    /\ "a.csv" \in DOMAIN processedDir
    /\ handled["a.csv"] = <<1>>
    /\ Len(handled["p2.pdf"]) = 2

(* C13: a process_jd_file call makes, in row order, exactly one
   save_job_description (raw text only: no summary, skills, responsibilities
   or qualifications) and one publish_message to the job queue with
   {job_id, job_title, raw_text} for every row with a non-empty description;
   a row with an empty description gives neither and the rows after it are
   processed.  When no row fails this covers all rows of the file and the
   file is archived; when a row fails, the rows before it. *)
C13_OneMessagePerDescribedRow ==
    lastIngest.kind = "jd" =>
        LET rows == lastIngest.rows
            calls == lastIngest.calls
            n == IF lastIngest.raisedAt = 0 THEN Len(rows) ELSE lastIngest.raisedAt - 1
            described == {i \in 1..n : Get(rows[i], "job_description", "") # ""}
            idx(k) == CHOOSE i \in described :
                          Cardinality({j \in described : j < i}) = k - 1
        IN  /\ Len(calls) = Cardinality(described)
            /\ Len(jobs) = lastIngest.jobsBefore + Len(calls)
            /\ \A k \in 1..Len(calls) :
                 LET row == rows[idx(k)]
                     m == calls[k].payload
                     jd == jobs[lastIngest.jobsBefore + k]
                 IN  /\ calls[k].queue = JD_QUEUE
                     /\ DOMAIN m = {"job_id", "job_title", "raw_text"}
                     /\ "job_id" \in DOMAIN row => m.job_id = row.job_id
                     /\ m.job_title = Get(row, "job_title", "")
                     /\ m.raw_text = row.job_description
                     /\ jd.job_id = m.job_id
                     /\ jd.job_title = m.job_title
                     /\ jd.raw_text = m.raw_text
                     /\ jd.summary = Null /\ jd.skills = Null
                     /\ jd.responsibilities = Null /\ jd.qualifications = Null
                     /\ lastIngest.up =>
                          LET q == queues[JD_QUEUE]
                          IN  /\ Len(q) >= Len(calls)
                              /\ q[Len(q) - Len(calls) + k] = m
            /\ lastIngest.raisedAt = 0 =>
                 /\ lastIngest.archived
                 /\ lastIngest.name \in DOMAIN processedDir

\* the file whose second of three rows has no description: two messages
C13_EmptyRowSkipped ==
    /\ lastIngest.kind = "jd"
    /\ Len(lastIngest.rows) = 3
    /\ lastIngest.rows[2].job_description = ""
    /\ lastIngest.raisedAt = 0
    /\ lastIngest.up
    /\ Len(lastIngest.calls) = 2
    /\ lastIngest.calls[2].payload.job_id = "J3"

(* C14: the step that starts the orchestrator processes every .csv file of
   the job root and every .pdf file of the resume root that is there at that
   moment, each once, by the operations the created-events use, and leaves
   the observers not yet started; the observers start only after it, and
   created-events are handled only once they have. *)
C14_ScanBeforeWatch ==
    /\ [][(orchPc = "down" /\ orchPc' # "down") =>
            /\ orchPc' = "scanned"
            /\ events' = {}
            /\ \A n \in DOMAIN jdRoot \cup resumeRoot :
                 handled'[n] = IF \/ n \in DOMAIN jdRoot /\ n \in Range(CsvNames)
                                  \/ n \in resumeRoot /\ n \in Range(PdfNames)
                               THEN Append(handled[n], starts')
                               ELSE handled[n]
            /\ \A n \in FileNames :
                 handled'[n] # handled[n] => n \in DOMAIN jdRoot \cup resumeRoot]_vars
    /\ [][orchPc' = "watching" => orchPc \in {"scanned", "watching"}]_vars
    /\ [][(handled' # handled /\ orchPc # "down") => orchPc = "watching"]_vars

\* the second start finds a resume of the first run and a job file that the
\* first run had not processed
C14_FoundAtRestart ==
    /\ starts = 2
    /\ orchPc = "scanned"
    /\ handled["p1.pdf"] = <<1, 2>>
    /\ handled["b.csv"] = <<2>>

(* C15: a process_resume_file call makes exactly one publish_message call,
   to the resume queue with {resume_path}, and changes nothing else: the file
   stays in the resume root, no table changes.  Each start of the
   orchestrator while the file is in the root processes it once more, so on
   a reachable broker the queue gets one more message for the same path. *)
C15_ResumePublishedOnly ==
    /\ [](lastIngest.kind = "resume" =>
            /\ lastIngest.calls =
                   <<[queue |-> RESUME_QUEUE,
                      payload |-> [resume_path |-> lastIngest.name]]>>
            /\ lastIngest.name \in resumeRoot
            /\ Len(jobs) = lastIngest.jobsBefore
            /\ candidates = <<>> /\ matches = <<>>)
    /\ [][\A n \in Range(PdfNames) :
            (orchPc = "watching" /\ handled'[n] # handled[n]) =>
               /\ handled'[n] = Append(handled[n], starts)
               /\ UNCHANGED <<jobs, candidates, matches, jdRoot, processedDir,
                              resumeRoot>>
               /\ queues' = IF lastIngest'.up
                            THEN [queues EXCEPT ![RESUME_QUEUE] =
                                      Append(@, [resume_path |-> n])]
                            ELSE queues]_vars
    /\ [][\A n \in resumeRoot \cap Range(PdfNames) :
            (orchPc = "down" /\ orchPc' # "down") =>
               LET count(q) == Cardinality({i \in DOMAIN q : q[i].resume_path = n})
               IN  /\ handled'[n] = Append(handled[n], starts')
                   /\ n \in resumeRoot'
                   /\ count(queues'[RESUME_QUEUE]) =
                          count(queues[RESUME_QUEUE]) + (IF lastIngest'.up THEN 1 ELSE 0)]_vars

\* the same resume published by two starts
C15_PublishedAgainAtRestart ==
    /\ starts = 2
    /\ handled["p1.pdf"] = <<1, 2>>
    /\ "p1.pdf" \in resumeRoot
    /\ queues[RESUME_QUEUE] = <<[resume_path |-> "p1.pdf"], [resume_path |-> "p1.pdf"]>>

(* C16: in a notifier step the Match named by the message gets
   email_sent = TRUE and a timestamp exactly when the send returned success;
   when it did not (or was not reached), the Match table is left as it was.
   Either way the message is acknowledged, nothing is published and no
   other queue or table changes. *)
C16_MarkedIffSent ==
    [][(queues[EMAIL_QUEUE] # <<>> /\ queues'[EMAIL_QUEUE] = Tail(queues[EMAIL_QUEUE]))
        \/ (lastHandled' # lastHandled /\ lastHandled'.stage = "notifier")
       =>
       LET msg == Head(queues[EMAIL_QUEUE])
       IN  /\ lastHandled'.stage = "notifier"
           /\ lastHandled'.msg = msg
           /\ lastHandled'.verdict = "ack"
           /\ lastHandled'.pubs = <<>>
           /\ queues' = [queues EXCEPT ![EMAIL_QUEUE] = Tail(@)]
           /\ jobs' = jobs /\ candidates' = candidates
           /\ DOMAIN matches' = DOMAIN matches
           /\ \A i \in DOMAIN matches :
                IF lastHandled'.sent /\ matches[i].id = msg.match_id
                THEN /\ matches'[i].email_sent = TRUE
                     /\ matches'[i].email_sent_at # Null
                     /\ matches'[i] = [matches[i] EXCEPT
                                           !.email_sent = TRUE,
                                           !.email_sent_at = matches'[i].email_sent_at]
                ELSE matches'[i] = matches[i]]_vars

\* a send that failed: the message is gone, its Match is not marked, while
\* another Match of the same candidate has been marked
C16_SendFailedUnmarked ==
    /\ lastHandled.stage = "notifier"
    /\ ~lastHandled.sent
    /\ ~lastHandled.error
    /\ lastHandled.verdict = "ack"
    /\ \E i, j \in DOMAIN matches :
          /\ matches[i].id = lastHandled.msg.match_id
          /\ ~matches[i].email_sent
          /\ matches[i].email_sent_at = Null
          /\ matches[j].email_sent

(* C17: a Match row, once created, is never deleted and keeps its id, job,
   candidate, score and shortlisted value; email_sent never goes from TRUE
   to FALSE; the timestamp is set exactly when email_sent is TRUE; and the
   only steps that change an existing row are notifier steps. *)
C17_MatchOneWay ==
    /\ [](\A i \in DOMAIN matches :
            matches[i].email_sent <=> matches[i].email_sent_at # Null)
    /\ [][/\ Len(matches') >= Len(matches)
          /\ \A i \in DOMAIN matches :
               /\ matches'[i].id = matches[i].id
               /\ matches'[i].job_id = matches[i].job_id
               /\ matches'[i].candidate_id = matches[i].candidate_id
               /\ matches'[i].score = matches[i].score
               /\ matches'[i].shortlisted = matches[i].shortlisted
               /\ matches[i].email_sent => matches'[i].email_sent
               /\ matches'[i] # matches[i] =>
                    /\ lastHandled'.stage = "notifier"
                    /\ lastHandled'.sent
                    /\ lastHandled'.msg.match_id = matches[i].id
                    /\ matches'[i].email_sent]_vars

\* every email handled: one Match marked, one that never qualified
C17_OneMarkedOneNever ==
    /\ queues[EMAIL_QUEUE] = <<>>
    /\ lastHandled.stage = "notifier"
    /\ \E i, j \in DOMAIN matches :
          /\ matches[i].email_sent /\ matches[i].email_sent_at # Null
          /\ ~matches[j].email_sent
          /\ ~RatGE(matches[j].score, match_threshold)

(* C18: with several stages consuming through one shared client and
   channel, every stage has at most one delivered and unacknowledged message
   at any time, and at most one thread is running that stage's handler,
   whichever thread's consume loop dispatched it. *)
C18_OneInFlightPerStage ==
    \A st \in SharedStages :
        /\ sh_unacked[st] <= 1
        /\ sh_events[st] <= sh_unacked[st]
        /\ Cardinality({t \in Threads : InHandler(t) /\ sh_stage[t] = st}) <= 1

\* the summarizer's handler runs in the resume parser's thread; a second
\* job message waits at the broker although the summarizer's own thread is
\* idle in the consume loop
C18_SecondMessageHeldBack ==
    /\ InHandler("resume_parser") /\ sh_stage["resume_parser"] = "summarizer"
    /\ sh_pc["summarizer"] = "start_consuming"
    /\ sh_registered["summarizer"]
    /\ sh_unacked["summarizer"] = 1
    /\ sh_ready[JD_QUEUE] = 1

(* C19: no two threads are inside an operation on the shared channel at the
   same time. *)
C19_ChannelAccessSerialized ==
    Cardinality({t \in Threads : InChannel(t)}) <= 1

(* C20: if the stage is never stopped and the connection is open again and
   again, then every message for which publish_message returned True is
   eventually acknowledged and off the queue (or some message has used up
   the deliveries a run of the model follows). *)
C20_AtLeastOnce ==
    ([](stagePc # "stopped") /\ []<>(connection = "open"))
    => \A i \in BusIds :
          (lastPublish.id = i /\ lastPublish.result = "true")
          ~> (\/ \A k \in DOMAIN brokerQueue : brokerQueue[k].id # i
              \/ \E j \in BusIds : deliveries[j] = MaxDeliveries)

(* C21: in every mode an interrupt of main() leads to the end of the
   process after at most one join of one second per started thread (at most
   five); the step after the joins closes the client's connection; and when
   the process has ended no connection is open and no observer, consumer or
   agent thread is left. *)
C21_InterruptEndsProcess ==
    /\ [](mn_joins <= Len(mn_started) /\ Len(mn_started) <= Len(AgentOrder))
    /\ [](mn_pc = "exited" =>
            /\ connection = "closed"
            /\ mn_observers = 0
            /\ mn_consumers = <<>>
            /\ \A a \in DOMAIN mn_agents : mn_agents[a].state \in {"absent", "ended"})
    /\ [][(mn_pc = "join" /\ mn_pc' # "join") =>
            /\ mn_joins = Len(mn_started)
            /\ connection' = "closed"]_vars
    /\ (mn_pc = "join") ~> (mn_pc = "exited")

\* mode all with the five threads started and joined, ended
C21_AllModeEnded ==
    /\ mn_pc = "exited"
    /\ mn_mode = "all"
    /\ mn_joins = 5
    /\ mn_started = AgentOrder

(* C25: main() starts only agents of the selected mode, and once it
   sleeps in its loop it has started exactly those, each once: all five for
   mode all, the one named otherwise.  Every started agent holds the same
   client and the same database object.  Every stage agent whose start() has
   run has exactly one consumer registration, on its own input queue; no two
   registrations are on the same queue and the orchestrator has none. *)
C25_ModeSelectsAgents ==
    LET expected == CASE mn_mode = "all" -> {"summarizer", "resume_parser", "matcher",
                                             "notifier", "orchestrator"}
                      [] mn_mode = "jd" -> {"summarizer"}
                      [] mn_mode = "resume" -> {"resume_parser"}
                      [] mn_mode = "matcher" -> {"matcher"}
                      [] mn_mode = "email" -> {"notifier"}
                      [] mn_mode = "orchestrator" -> {"orchestrator"}
                      [] mn_mode = "none" -> {}
        own == [a \in {"summarizer", "resume_parser", "matcher", "notifier"} |->
                   CASE a = "summarizer" -> "job_desc_queue"
                     [] a = "resume_parser" -> "resume_queue"
                     [] a = "matcher" -> "resume_profile_queue"
                     [] a = "notifier" -> "email_queue"]
        of(a) == {i \in DOMAIN mn_consumers : mn_consumers[i].agent = a}
    IN  /\ Range(mn_started) \subseteq expected
        /\ Cardinality(Range(mn_started)) = Len(mn_started)
        /\ mn_pc = "sleep" => Range(mn_started) = expected
        /\ \A a \in DOMAIN mn_agents :
             /\ mn_agents[a].state # "absent" <=> a \in Range(mn_started)
             /\ mn_agents[a].state # "absent" => mn_agents[a].bus = 1 /\ mn_agents[a].db = 1
        /\ \A a \in DOMAIN own :
             mn_agents[a].state = "running" =>
                /\ Cardinality(of(a)) = 1
                /\ \A i \in of(a) : mn_consumers[i].queue = own[a]
        /\ of("orchestrator") = {}
        /\ \A i, j \in DOMAIN mn_consumers :
             mn_consumers[i].queue = mn_consumers[j].queue => i = j

\* mode all: five agents running, four consumers, two observers
C25_AllFiveRunning ==
    /\ mn_mode = "all"
    /\ mn_pc = "sleep"
    /\ \A a \in DOMAIN mn_agents : mn_agents[a].state = "running"
    /\ Len(mn_consumers) = 4
    /\ mn_observers = 2

(* C22: every message on the email queue names a Match row that exists,
   is the row of the message's job and candidate, and has the message's
   score; the email messages a matcher run publishes name rows that the
   same run created. *)
C22_EmailNamesItsMatch ==
    /\ \A k \in DOMAIN queues[EMAIL_QUEUE] :
         LET m == queues[EMAIL_QUEUE][k]
         IN  \E i \in DOMAIN matches :
                /\ matches[i].id = m.match_id
                /\ matches[i].job_id = m.job_id
                /\ matches[i].candidate_id = m.candidate_id
                /\ matches[i].score = m.score
                /\ \A j \in DOMAIN matches : matches[j].id = m.match_id => j = i
    /\ lastHandled.stage = "matcher" =>
         \A k \in DOMAIN lastHandled.pubs :
            lastHandled.pubs[k].queue = EMAIL_QUEUE =>
               /\ lastHandled.pubs[k].payload.match_id > lastHandled.matchesBefore
               /\ lastHandled.pubs[k].payload.match_id <= Len(matches)
               /\ lastHandled.pubs[k].payload.candidate_id = lastHandled.msg.candidate_id

\* the email on the queue is for the second Match of the run; the first job
\* did not qualify
C22_EmailForSecondMatch ==
    /\ lastHandled.stage = "matcher"
    /\ Len(matches) >= 2
    /\ Len(queues[EMAIL_QUEUE]) = 1
    /\ queues[EMAIL_QUEUE][1].match_id = 2
    /\ queues[EMAIL_QUEUE][1].job_id = matches[2].job_id
    /\ matches[1].job_id # matches[2].job_id


\* C23: a complete run of the matcher adds exactly one Match row for each job
\* of the table, in table order and for the message's candidate, whatever
\* rows the pair already has: the rows that existed are kept as they were and
\* every (job, candidate) pair has one row more than before the run
C23_OneRowPerJobPerRun ==
    [][(/\ queues[RESUME_PROFILE_QUEUE] # <<>>
        /\ queues'[RESUME_PROFILE_QUEUE] = Tail(queues[RESUME_PROFILE_QUEUE])
        /\ ~lastHandled'.error)
       => LET cid == Head(queues[RESUME_PROFILE_QUEUE]).candidate_id
              rows(ms, j) == {i \in DOMAIN ms : ms[i].job_id = jobs[j].id
                                                /\ ms[i].candidate_id = cid}
          IN  /\ Len(matches') = Len(matches) + Len(jobs)
              /\ \A i \in DOMAIN matches : matches'[i] = matches[i]
              /\ \A j \in DOMAIN jobs :
                    /\ matches'[Len(matches) + j].job_id = jobs[j].id
                    /\ matches'[Len(matches) + j].candidate_id = cid
                    /\ Cardinality(rows(matches', j)) = Cardinality(rows(matches, j)) + 1
      ]_vars

\* the same candidate was evaluated twice against the same two or more jobs
\* and every pair has two rows
C23_TwoRunsTwoRowsPerPair ==
    /\ injected = 1
    /\ lastHandled.stage = "matcher"
    /\ ~lastHandled.error
    /\ queues[RESUME_PROFILE_QUEUE] = <<>>
    /\ Len(jobs) >= 2
    /\ Len(matches) = 2 * Len(jobs)
    /\ \A j \in DOMAIN jobs :
          Cardinality({i \in DOMAIN matches :
                          /\ matches[i].job_id = jobs[j].id
                          /\ matches[i].candidate_id = lastHandled.msg.candidate_id}) = 2

\* C24: once the client is built the broker has exactly the six queues, and
\* they stay: declaring them again, at construction or on a reconnect,
\* changes nothing (declaring twice gives what declaring once gives), and no
\* step of the program's start-up and shutdown removes a queue or a message
C24_DeclareKeepsQueues ==
    /\ [](mn_pc # "parse_args" =>
            DOMAIN queues = {"job_desc_queue", "jd_summary_queue", "resume_queue",
                             "resume_profile_queue", "match_queue", "email_queue"})
    /\ [](declare_queues(declare_queues(queues)) = declare_queues(queues))
    /\ [](mn_pc # "parse_args" => declare_queues(queues) = queues)
    /\ [][\A q \in DOMAIN queues : q \in DOMAIN queues' /\ queues'[q] = queues[q]]_vars

\* a stage reconnected after another agent's cleanup had closed the
\* connection, so the queues were declared a second time, and the message
\* an earlier process left on the email queue is still there
C24_RedeclaredWithMessageWaiting ==
    /\ connection = "open"
    /\ \E a \in DOMAIN mn_agents : mn_agents[a].state = "ended"
    /\ mn_consumers # <<>>
    /\ Len(queues[EMAIL_QUEUE]) = 1

\* C26: a handler whose message lacks a field the handler reads has no
\* effect: no row is written or changed, nothing is published and no email
\* is sent; for the notifier this includes a message without candidate_id
\* or job_id
C26_MissingFieldNoEffect ==
    [][(/\ lastHandled' # lastHandled
        /\ RequiredFields(lastHandled'.stage) \ DOMAIN lastHandled'.msg # {})
       => /\ jobs' = jobs
          /\ candidates' = candidates
          /\ matches' = matches
          /\ lastHandled'.pubs = <<>>
          /\ ~lastHandled'.sent
      ]_vars

\* C27: a job file is in processed/ only when it was processed to the end:
\* no row raised, every described row is in the job table, and every
\* publish_message call for its rows handed its message to the broker
C27_ArchivedOnlyWhenPublished ==
    (lastIngest.kind = "jd" /\ lastIngest.archived) =>
        /\ lastIngest.raisedAt = 0
        /\ Len(jobs) = lastIngest.jobsBefore + Len(lastIngest.calls)
        /\ lastIngest.calls # <<>> => lastIngest.up

\* C28: the messages of a stage's input queue, waiting or delivered and not
\* yet acknowledged, become fewer only in the step in which a handler of
\* that stage has returned and its basic_ack is sent; when the connection
\* ends, every unacknowledged message is waiting on its queue again, and a
\* handler that was running at that moment never has its message
\* acknowledged
C28_AckOnlyAfterHandler ==
    /\ [][\A st \in SharedStages :
            sh_ready'[InputQueue(st)] + sh_unacked'[st]
                < sh_ready[InputQueue(st)] + sh_unacked[st]
            => \E t \in Threads :
                  /\ sh_pc[t] \in {"handler", "basic_publish"}
                  /\ sh_stage[t] = st
                  /\ sh_pc'[t] = "basic_ack"
                  /\ sh_ready'[InputQueue(st)] + sh_unacked'[st]
                        = sh_ready[InputQueue(st)] + sh_unacked[st] - 1]_vars
    /\ [][(connection = "open" /\ connection' = "closed")
          => \A st \in SharedStages :
                /\ sh_unacked'[st] = 0
                /\ sh_ready'[InputQueue(st)] = sh_ready[InputQueue(st)] + sh_unacked[st]]_vars
    /\ [][\A t \in Threads :
            (sh_pc[t] \in {"handler", "basic_publish"} /\ sh_stage[t] # "none"
             /\ sh_unacked[sh_stage[t]] = 0)
            => sh_pc'[t] # "basic_ack"]_vars

\* the connection ended while a handler was running: the handler is still
\* running, and its message is waiting on the stage's queue again
C28_InFlightMessageRequeued ==
    /\ connection = "closed"
    /\ \E t \in Threads :
          /\ sh_pc[t] \in {"handler", "basic_publish"}
          /\ sh_stage[t] # "none"
          /\ sh_unacked[sh_stage[t]] = 0
          /\ sh_ready[InputQueue(sh_stage[t])] >= 1

\* C29: a row is in its table by the time a message that names it is on a
\* queue.  While every message has come from the orchestrator and the
\* stages, each job_id on the job queue and on the job-summary queue is the
\* job_id of a JobDescription row, each candidate_id on the resume-profile
\* queue the id of a Candidate row, and each match_id on the email queue the
\* id of a Match row
C29_QueuedIdsArePersisted ==
    injected = 0 =>
        /\ \A q \in {"job_desc_queue", "jd_summary_queue"} :
              \A i \in DOMAIN queues[q] :
                 \E k \in DOMAIN jobs : jobs[k].job_id = queues[q][i].job_id
        /\ \A i \in DOMAIN queues["resume_profile_queue"] :
              \E k \in DOMAIN candidates :
                 candidates[k].id = queues["resume_profile_queue"][i].candidate_id
        /\ \A i \in DOMAIN queues["email_queue"] :
              \E k \in DOMAIN matches :
                 matches[k].id = queues["email_queue"][i].match_id

\* a summary and an email are waiting, both published by the stages
C29_SummaryAndEmailQueued ==
    /\ injected = 0
    /\ queues[JD_SUMMARY_QUEUE] # <<>>
    /\ queues[EMAIL_QUEUE] # <<>>
    /\ Len(candidates) = 1

\* C30: a run of the summarizer changes nothing but the summary, skills,
\* responsibilities and qualifications of the JobDescription rows that have
\* the message's job_id; the other rows, the candidates and the matches
\* stay as they are.  The title it publishes is the message's title when the
\* message has one, and otherwise the title the oracle gave (possibly none).
\* No step of the pipeline removes a JobDescription or a Candidate row or
\* changes its key
C30_SummarizerFrame ==
    /\ [][(lastHandled' # lastHandled /\ lastHandled'.stage = "summarizer")
          => LET msg == lastHandled'.msg
                 pubs == lastHandled'.pubs
             IN  /\ Len(jobs') = Len(jobs)
                 /\ \A i \in DOMAIN jobs :
                       /\ [jobs'[i] EXCEPT !.summary = jobs[i].summary,
                                           !.skills = jobs[i].skills,
                                           !.responsibilities = jobs[i].responsibilities,
                                           !.qualifications = jobs[i].qualifications]
                            = jobs[i]
                       /\ jobs'[i] # jobs[i] => jobs[i].job_id = msg.job_id
                 /\ candidates' = candidates
                 /\ matches' = matches
                 /\ \A k \in DOMAIN pubs :
                       /\ pubs[k].queue = "jd_summary_queue"
                       /\ pubs[k].payload.job_id = msg.job_id
                       /\ IF "job_title" \in DOMAIN msg /\ msg.job_title # ""
                          THEN pubs[k].payload.job_title = msg.job_title
                          ELSE pubs[k].payload.job_title \in {"", "Developer"}]_vars
    /\ [][/\ Len(jobs') >= Len(jobs)
          /\ \A i \in DOMAIN jobs :
                jobs'[i].id = jobs[i].id /\ jobs'[i].job_id = jobs[i].job_id
          /\ Len(candidates') >= Len(candidates)
          /\ \A i \in DOMAIN candidates : candidates'[i].id = candidates[i].id]_vars

\* the summarizer has handled a message without a title for a stored job:
\* the row has its summary and its stored title, and the published title is
\* the oracle's
C30_OracleTitlePublished ==
    /\ lastHandled.stage = "summarizer"
    /\ ~lastHandled.error
    /\ "job_title" \notin DOMAIN lastHandled.msg
    /\ lastHandled.pubs[1].payload.job_title = "Developer"
    /\ \E i \in DOMAIN jobs :
          /\ jobs[i].job_id = lastHandled.msg.job_id
          /\ jobs[i].summary # Null
          /\ jobs[i].job_title = "Engineer"

\* C31: a run of the resume parser that does not fail adds exactly one
\* Candidate row, for the message's resume path, when the message has no
\* candidate_id, and none when it has one; the parsed resume is attached to
\* the created row, or to the row with the given id, and no other row
\* changes.  Either way the run publishes exactly one resume-profile message,
\* whose candidate_id is the created or the given id
C31_OneCandidatePerUnidentifiedResume ==
    [][(/\ lastHandled' # lastHandled
        /\ lastHandled'.stage = "resume_parser"
        /\ ~lastHandled'.error)
       => LET msg == lastHandled'.msg
              pubs == lastHandled'.pubs
              n == Len(candidates)
              cid == IF "candidate_id" \in DOMAIN msg THEN msg.candidate_id ELSE n + 1
          IN  /\ Len(pubs) = 1
              /\ pubs[1].queue = "resume_profile_queue"
              /\ pubs[1].payload.candidate_id = cid
              /\ pubs[1].payload.resume_path = msg.resume_path
              /\ Len(candidates') = IF "candidate_id" \in DOMAIN msg THEN n ELSE n + 1
              /\ "candidate_id" \notin DOMAIN msg =>
                    /\ candidates'[n + 1].id = n + 1
                    /\ candidates'[n + 1].resume_path = msg.resume_path
              /\ \A i \in DOMAIN candidates' :
                    IF candidates'[i].id = cid
                    THEN /\ candidates'[i].parsed_resume = <<pubs[1].payload.parsed_resume>>
                         /\ i <= n => [candidates'[i] EXCEPT !.parsed_resume =
                                           candidates[i].parsed_resume] = candidates[i]
                    ELSE candidates'[i] = candidates[i]
      ]_vars

\* the same resume file was parsed twice without a candidate_id: two
\* Candidate rows for one resume path, and the second profile names the second
C31_SameResumeTwoCandidates ==
    /\ lastHandled.stage = "resume_parser"
    /\ ~lastHandled.error
    /\ "candidate_id" \notin DOMAIN lastHandled.msg
    /\ Len(candidates) = 2
    /\ candidates[1].resume_path = candidates[2].resume_path
    /\ lastHandled.pubs[1].payload.candidate_id = 2

\* C32: in the profile a run of the resume parser publishes, each of name,
\* contact.email and contact.phone is the LLM's value when the LLM gave a
\* non-empty one, the regex extractor's value when the LLM's is missing or
\* empty and the extractor found one, and otherwise as the LLM left it
C32_FallbackFillsOnlyGaps ==
    (lastHandled.stage = "resume_parser" /\ ~lastHandled.error) =>
        LET parsed == lastHandled.oracle.parsed
            basic == lastHandled.oracle.basic_info
            profile == lastHandled.pubs[1].payload.parsed_resume
            contact(p) == IF "contact" \in DOMAIN p THEN p.contact ELSE <<>>
            val(m, k) == IF k \in DOMAIN m THEN m[k] ELSE ""
            rule(llm, regex, out) ==
                /\ llm # "" => out = llm
                /\ (llm = "" /\ regex # "") => out = regex
                /\ (llm = "" /\ regex = "") => out = ""
                /\ out = regex => (llm = regex \/ llm = "")
        IN  /\ rule(val(parsed, "name"), basic.name, val(profile, "name"))
            /\ rule(val(contact(parsed), "email"), basic.email,
                    val(contact(profile), "email"))
            /\ rule(val(contact(parsed), "phone"), basic.phone,
                    val(contact(profile), "phone"))
            /\ \A k \in DOMAIN parsed \ {"name", "contact"} :
                  k \in DOMAIN profile /\ profile[k] = parsed[k]

\* the LLM gave a name and a phone but an empty email and the extractor
\* found all three: the profile has the LLM's name and phone and the
\* extractor's email
C32_EmailFilledNameKept ==
    /\ lastHandled.stage = "resume_parser"
    /\ ~lastHandled.error
    /\ "name" \in DOMAIN lastHandled.oracle.parsed
    /\ lastHandled.oracle.parsed.name = "Ann"
    /\ lastHandled.oracle.parsed.contact.email = ""
    /\ lastHandled.oracle.basic_info.name = "Bea"
    /\ lastHandled.pubs[1].payload.parsed_resume.name = "Ann"
    /\ lastHandled.pubs[1].payload.parsed_resume.contact.email = "bea@regex"
    /\ lastHandled.pubs[1].payload.parsed_resume.contact.phone = "1"

\* C33: every Match that is marked email-sent has a score at or above the
\* configured threshold, and a Match becomes marked only in the step in
\* which the notifier takes an email-queue message with that Match's id and
\* score from the queue; so a Match below the threshold is never marked
C33_SentOnlyIfQualified ==
    /\ [](\A i \in DOMAIN matches :
             matches[i].email_sent => RatGE(matches[i].score, match_threshold))
    /\ [][\A i \in DOMAIN matches :
            (matches'[i].email_sent /\ ~matches[i].email_sent)
            => /\ queues["email_queue"] # <<>>
               /\ queues'["email_queue"] = Tail(queues["email_queue"])
               /\ Head(queues["email_queue"]).match_id = matches[i].id
               /\ Head(queues["email_queue"]).score = matches[i].score
               /\ lastHandled'.stage = "notifier"]_vars

\* the notifier has emptied the email queue: the Match that qualified is
\* marked, and one that did not qualify is there and is not
C33_QualifierMarkedOtherNot ==
    /\ lastHandled.stage = "notifier"
    /\ queues[EMAIL_QUEUE] = <<>>
    /\ \E i, j \in DOMAIN matches :
          /\ matches[i].email_sent
          /\ RatGE(matches[i].score, match_threshold)
          /\ ~RatGE(matches[j].score, match_threshold)
          /\ ~matches[j].email_sent

\* C34: when a job file whose rows have no job_id has been processed, no row
\* raised, every row with a description has its JobDescription and its
\* job-queue message, and no two JobDescriptions have the same job_id
C34_SynthesizedIdsDistinct ==
    /\ \A i, j \in DOMAIN jobs : jobs[i].job_id = jobs[j].job_id => i = j
    /\ (/\ lastIngest.kind = "jd"
        /\ \A i \in DOMAIN lastIngest.rows : "job_id" \notin DOMAIN lastIngest.rows[i])
       => /\ lastIngest.raisedAt = 0
          /\ Len(lastIngest.calls)
                = Cardinality({i \in DOMAIN lastIngest.rows :
                                  "job_description" \in DOMAIN lastIngest.rows[i]
                                  /\ lastIngest.rows[i].job_description # ""})
          /\ Len(jobs) = lastIngest.jobsBefore + Len(lastIngest.calls)

\* C35: processing a file leaves the orchestrator running, whatever happened
\* to the file.  When a row of a job file raised, the file is still in the
\* job root as it was and not in processed/, the rows before the failing one
\* have their messages (on the job queue when the broker was reachable),
\* the failing row and the rows after it have none, and the scan of the next
\* start() processes every job file that is in the root, this one included
C35_FailedFileStaysForNextStart ==
    /\ [][lastIngest' # lastIngest => orchPc' \in {"scanned", "watching"}]_vars
    /\ []((lastIngest.kind = "jd" /\ lastIngest.raisedAt # 0) =>
            LET rows == lastIngest.rows
                calls == lastIngest.calls
                before == {i \in 1..(lastIngest.raisedAt - 1) :
                              "job_description" \in DOMAIN rows[i]
                              /\ rows[i].job_description # ""}
                q == queues["job_desc_queue"]
            IN  /\ ~lastIngest.archived
                /\ lastIngest.name \in DOMAIN jdRoot
                /\ jdRoot[lastIngest.name] = rows
                /\ lastIngest.name \notin DOMAIN processedDir
                /\ Len(calls) = Cardinality(before)
                /\ Len(jobs) = lastIngest.jobsBefore + Len(calls)
                /\ lastIngest.up =>
                      /\ Len(q) >= Len(calls)
                      /\ \A k \in 1..Len(calls) :
                            q[Len(q) - Len(calls) + k] = calls[k].payload)
    /\ [][starts' = starts + 1 =>
            \A name \in DOMAIN jdRoot :
               (\E k \in DOMAIN CsvNames : CsvNames[k] = name)
               => handled'[name] = Append(handled[name], starts')]_vars

\* a job file failed at its second row in the first start, with the first
\* row's message handed to the broker; the second start has processed the
\* file again, it failed at its first row, and the file is still in the root
C35_FailedFileTriedAgain ==
    /\ starts = 2
    /\ lastIngest.kind = "jd"
    /\ lastIngest.raisedAt = 1
    /\ handled[lastIngest.name] = <<1, 2>>
    /\ lastIngest.name \in DOMAIN jdRoot
    /\ Len(jobs) = 1
    /\ Len(queues[JD_QUEUE]) = 1
    /\ queues[JD_QUEUE][1].job_id = jobs[1].job_id

\* C36: no job file or resume is missed or processed twice in a run: once
\* the observers are running and have delivered their events, every .csv
\* file of the job root and every .pdf file of the resume root has been
\* processed in this run, and no file was processed more than once in a run
C36_NoFileMissedInRun ==
    /\ \A name \in DOMAIN handled :
          \A i, j \in DOMAIN handled[name] :
             handled[name][i] = handled[name][j] => i = j
    /\ (orchPc = "watching" /\ events = {}) =>
          /\ \A name \in DOMAIN jdRoot :
                (\E k \in DOMAIN CsvNames : CsvNames[k] = name)
                => \E i \in DOMAIN handled[name] : handled[name][i] = starts
          /\ \A name \in resumeRoot :
                (\E k \in DOMAIN PdfNames : PdfNames[k] = name)
                => \E i \in DOMAIN handled[name] : handled[name][i] = starts

\* C37: while an agent is running on the connection the agents share, only
\* main()'s cleanup closes it: a step that takes the connection from open to
\* closed under a running agent is the close of main() after its interrupt
\* and its joins, and while main() is starting agents or sleeping and an
\* agent is running, the connection is open
C37_ClosedOnlyAtShutdown ==
    /\ [][(/\ connection = "open" /\ connection' = "closed"
           /\ \E a \in DOMAIN mn_agents : mn_agents[a].state = "running")
          => (mn_pc = "join" /\ mn_pc' = "exit")]_vars
    /\ []((/\ mn_pc \in {"start_agents", "sleep"}
           /\ \E a \in DOMAIN mn_agents : mn_agents[a].state = "running")
          => connection = "open")
====
